---- MODULE Spec2Model ----
(***************************************************************************)
(* Space Pong: the match orchestrator (PlayState), its entities (Ship,     *)
(* Ball, LaserGrid), the bounce resolver, the AI controller, the menu and  *)
(* the StateManager, as one state machine.                                 *)
(*                                                                         *)
(* Numbers.  The program computes with Python floats; the model computes   *)
(* with integers in fixed units:                                           *)
(*   time            milliseconds                                          *)
(*   positions       pixels                                                *)
(*   ship speed      pixels per second                                     *)
(*   ball speed and  tenths of a pixel per second (350 px/s is 3500)       *)
(*   ball velocity                                                         *)
(* Products are rounded toward zero.  math.cos / math.sin are a table in   *)
(* thousandths at multiples of 6 degrees (and 45 degrees).                 *)
(*                                                                         *)
(* Sprites.  Every entity has the size of its placeholder sprite           *)
(* (SHIP_WIDTH x SHIP_HEIGHT, BALL_SIZE x BALL_SIZE); the growth of the    *)
(* ball's bounding box while its sprite rotates is not modelled.           *)
(***************************************************************************)
EXTENDS Integers, Sequences, FiniteSets, TLC

VARIABLES
  running,   \* Game.running
  pc,        \* Game.run: "events" (in the loop), "done" (after it); "scoring"
             \* (in PlayState.update, before _check_scoring); "wall" (in
             \* Ball.update, before _check_wall_collision); "laser" (in
             \* PlayState._check_collisions, before the barrier check); "predict"
             \* (before a call of a trajectory predictor)
  sm,        \* StateManager: [current, pending]
  menu,      \* MenuState: [selected_index]
  ps,        \* PlayState and everything it owns (ships, ball, scoreboard, AI)
  inp,       \* InputHandler._keys_pressed
  last       \* history: what the last step did (not program state)

vars == <<running, pc, sm, menu, ps, inp, last>>

(***************************************************************************)
(* core/constants.py                                                       *)
(***************************************************************************)
SCREEN_WIDTH == 1280
SCREEN_HEIGHT == 720
SHIP_SPEED == 400
BALL_INITIAL_SPEED == 350
BALL_MAX_SPEED == 700
\* BALL_SPEED_INCREMENT = 1.05, in hundredths
BALL_SPEED_INCREMENT == 105
SHIP_WIDTH == 80
SHIP_HEIGHT == 100
BALL_SIZE == 40
LASER_GRID_WIDTH == 10
SHIP_MARGIN == 50
SHIP_P1_X == SHIP_MARGIN
SHIP_P2_X == SCREEN_WIDTH - SHIP_MARGIN - SHIP_WIDTH
MAX_BOUNCE_ANGLE == 60
WALL_BOUNCE_VARIATION == 5
WINNING_SCORE == 10

\* AI_DIFFICULTY: reaction_delay in ms, prediction_error in px, speed_multiplier
\* and mistake_chance in hundredths, focus_drift and drift_speed in tenths
AI_DIFFICULTY ==
  [easy   |-> [reaction_delay |-> 300, prediction_error |-> 120, speed_multiplier |-> 60,
               mistake_chance |-> 40, focus_drift |-> 8, drift_speed |-> 40],
   medium |-> [reaction_delay |-> 150, prediction_error |-> 60, speed_multiplier |-> 80,
               mistake_chance |-> 20, focus_drift |-> 4, drift_speed |-> 20],
   hard   |-> [reaction_delay |-> 50, prediction_error |-> 15, speed_multiplier |-> 100,
               mistake_chance |-> 5, focus_drift |-> 1, drift_speed |-> 10]]

PVP == "pvp"
PVE == "pve"
MENU == "menu"
PLAYING == "playing"

(***************************************************************************)
(* Arithmetic                                                              *)
(***************************************************************************)
Abs(a) == IF a < 0 THEN -a ELSE a
Min(a, b) == IF a < b THEN a ELSE b
Max(a, b) == IF a > b THEN a ELSE b
Sgn(a) == IF a < 0 THEN -1 ELSE IF a > 0 THEN 1 ELSE 0
\* a / b rounded toward zero (b > 0)
Quot(a, b) == IF a >= 0 THEN a \div b ELSE -((-a) \div b)

\* math.cos and math.sin of an angle in degrees, in thousandths
CosTab(a) ==
  CASE a = 0 -> 1000 [] a = 6 -> 995 [] a = 12 -> 978 [] a = 18 -> 951
    [] a = 24 -> 914 [] a = 30 -> 866 [] a = 36 -> 809 [] a = 42 -> 743
    [] a = 45 -> 707 [] a = 48 -> 669 [] a = 54 -> 588 [] a = 60 -> 500
SinTab(a) ==
  CASE a = 0 -> 0 [] a = 6 -> 105 [] a = 12 -> 208 [] a = 18 -> 309
    [] a = 24 -> 407 [] a = 30 -> 500 [] a = 36 -> 588 [] a = 42 -> 669
    [] a = 45 -> 707 [] a = 48 -> 743 [] a = 54 -> 809 [] a = 60 -> 866
Cos1000(a) == CosTab(Abs(a))
Sin1000(a) == Sgn(a) * SinTab(Abs(a))

\* floor(sqrt(n)) by Newton's iteration from x
RECURSIVE Newton(_, _)
Newton(n, x) ==
  LET y == (x + n \div x) \div 2
  IN IF y >= x THEN x ELSE Newton(n, y)
ISqrt(n) == IF n <= 0 THEN 0 ELSE Newton(n, n)

\* pygame.Rect.colliderect of two rectangles [left, top, w, h]
CollideRect(a, b) ==
  /\ a.w > 0 /\ a.h > 0 /\ b.w > 0 /\ b.h > 0
  /\ a.left < b.left + b.w /\ b.left < a.left + a.w
  /\ a.top < b.top + b.h /\ b.top < a.top + a.h
\* a rectangle of size w x h whose center is set to (cx, cy)
RectAt(cx, cy, width, height) ==
  [left |-> cx - width \div 2, top |-> cy - height \div 2, w |-> width, h |-> height]

(***************************************************************************)
(* entities/ship.py                                                        *)
(***************************************************************************)
\* a faulty variant of ShipResetX: the ships are placed on the barrier
ShipResetX_AtBarrier(player_id) == SCREEN_WIDTH \div 2
ShipResetX(player_id) ==
  IF player_id = 1 THEN SHIP_P1_X + SHIP_WIDTH \div 2 ELSE SHIP_P2_X + SHIP_WIDTH \div 2
ShipMinY == SHIP_HEIGHT \div 2 + 10
ShipMaxY == SCREEN_HEIGHT - SHIP_HEIGHT \div 2 - 10

\* Ship.__init__
NewShip(player_id, is_bot) ==
  [player_id |-> player_id, is_bot |-> is_bot,
   x |-> ShipResetX(player_id), y |-> SCREEN_HEIGHT \div 2, vy |-> 0,
   score |-> 0, speed |-> SHIP_SPEED, move_direction |-> 0]

\* a faulty variant of ShipUpdate: the new y is not clamped
ShipUpdate_Unclamped(s, dt) ==
  LET vy == s.move_direction * s.speed
  IN [s EXCEPT !.vy = vy, !.y = s.y + Quot(vy * dt, 1000)]
\* Ship.update
ShipUpdate(s, dt) ==
  LET vy == IF s.move_direction # 0 THEN s.move_direction * s.speed ELSE 0
      new_y == s.y + Quot(vy * dt, 1000)
  IN [s EXCEPT !.vy = vy, !.y = Max(ShipMinY, Min(ShipMaxY, new_y))]

\* Ship.move_up / move_down / stop, by the command "up", "down" or "none"
ShipCommand(s, cmd) ==
  [s EXCEPT !.move_direction = IF cmd = "up" THEN -1 ELSE IF cmd = "down" THEN 1 ELSE 0]
\* Ship.set_movement
ShipSetMovement(s, direction) ==
  [s EXCEPT !.move_direction = Max(-1, Min(1, direction))]
\* Ship.reset_position
ShipResetPosition(s) ==
  [s EXCEPT !.x = ShipResetX(s.player_id), !.y = SCREEN_HEIGHT \div 2,
            !.vy = 0, !.move_direction = 0]
\* a faulty variant of ShipAddScore: the ship counts its point twice
ShipAddScore_Twice(s) == [s EXCEPT !.score = @ + 2]
\* Ship.add_score / reset_score
ShipAddScore(s) == [s EXCEPT !.score = @ + 1]
ShipResetScore(s) == [s EXCEPT !.score = 0]
\* Entity.get_rect and Ship.get_paddle_rect (padding 5)
ShipRect(s) == RectAt(s.x, s.y, SHIP_WIDTH, SHIP_HEIGHT)
ShipPaddleRect(s) ==
  LET r == ShipRect(s)
  IN [left |-> r.left + 5, top |-> r.top + 5, w |-> r.w - 10, h |-> r.h - 10]

(***************************************************************************)
(* entities/laser_grid.py                                                  *)
(***************************************************************************)
\* LaserGrid.get_collision_rect
LaserCollisionRect ==
  [left |-> SCREEN_WIDTH \div 2 - LASER_GRID_WIDTH \div 2, top |-> 0,
   w |-> LASER_GRID_WIDTH, h |-> SCREEN_HEIGHT]
\* LaserGrid.danger_zone
LaserDangerZone ==
  [left |-> SCREEN_WIDTH \div 2 - LASER_GRID_WIDTH - 10, top |-> 0,
   w |-> LASER_GRID_WIDTH * 2 + 20, h |-> SCREEN_HEIGHT]
\* LaserGrid.check_collision
LaserCheckCollision(ship_rect) == CollideRect(LaserCollisionRect, ship_rect)

(***************************************************************************)
(* entities/ball.py                                                        *)
(***************************************************************************)
\* the velocity Ball._set_random_direction and Ball.reset give: angle in
\* degrees (random.uniform(-pi/4, pi/4)), direction -1 or 1
ServeVelocity(speed, angle, direction) ==
  [vx |-> Quot(Cos1000(angle) * speed, 1000) * direction,
   vy |-> Quot(Sin1000(angle) * speed, 1000)]

\* Ball.__init__: centre of the screen, random direction
NewBall(angle, direction) ==
  LET v == ServeVelocity(BALL_INITIAL_SPEED * 10, angle, direction)
  IN [x |-> SCREEN_WIDTH \div 2, y |-> SCREEN_HEIGHT \div 2, vx |-> v.vx, vy |-> v.vy,
      speed |-> BALL_INITIAL_SPEED * 10, last_hit_by |-> 0]

\* Ball.reset(towards_player): towards_player 0 is None (random direction rnd_dir)
BallReset(b, towards_player, angle, rnd_dir) ==
  LET direction == IF towards_player = 0 THEN rnd_dir
                   ELSE IF towards_player = 1 THEN -1 ELSE 1
      v == ServeVelocity(BALL_INITIAL_SPEED * 10, angle, direction)
  IN [b EXCEPT !.x = SCREEN_WIDTH \div 2, !.y = SCREEN_HEIGHT \div 2,
               !.speed = BALL_INITIAL_SPEED * 10, !.last_hit_by = 0,
               !.vx = v.vx, !.vy = v.vy]

\* Ball._check_wall_collision: jitter is random.uniform(-WALL_BOUNCE_VARIATION,
\* WALL_BOUNCE_VARIATION), in tenths of a pixel per second
BallCheckWallCollision(b, jitter) ==
  LET half_size == BALL_SIZE \div 2
  IN IF b.y - half_size <= 0
     THEN [b EXCEPT !.y = half_size, !.vy = Abs(b.vy) + jitter]
     ELSE IF b.y + half_size >= SCREEN_HEIGHT
     THEN [b EXCEPT !.y = SCREEN_HEIGHT - half_size, !.vy = -Abs(b.vy) + jitter]
     ELSE b
\* whether Ball._check_wall_collision bounces
BallAtWall(b) ==
  b.y - BALL_SIZE \div 2 <= 0 \/ b.y + BALL_SIZE \div 2 >= SCREEN_HEIGHT

\* the position part of Ball.update
BallMove(b, dt) ==
  [b EXCEPT !.x = b.x + Quot(b.vx * dt, 10000), !.y = b.y + Quot(b.vy * dt, 10000)]
\* Ball.update
BallUpdate(b, dt, jitter) == BallCheckWallCollision(BallMove(b, dt), jitter)

\* a faulty variant of BallIsOutLeft: the comparison is not strict
BallIsOutLeft_Inclusive(b) == b.x + BALL_SIZE <= 0
\* Ball.is_out_left / is_out_right / is_out_of_bounds: <<out, scorer>>
BallIsOutLeft(b) == b.x + BALL_SIZE < 0
BallIsOutRight(b) == b.x - BALL_SIZE > SCREEN_WIDTH
BallIsOutOfBounds(b) ==
  IF BallIsOutLeft(b) THEN <<TRUE, 2>>
  ELSE IF BallIsOutRight(b) THEN <<TRUE, 1>>
  ELSE <<FALSE, 0>>
\* Entity.get_rect of the ball
BallRect(b) == RectAt(b.x, b.y, BALL_SIZE, BALL_SIZE)

(***************************************************************************)
(* systems/collision.py and systems/physics.py                             *)
(***************************************************************************)
\* CollisionSystem.check_ball_ship_collision: result.collided
CheckBallShipCollision(b, ship) ==
  /\ CollideRect(BallRect(b), ShipPaddleRect(ship))
  /\ ~(ship.player_id = 1 /\ b.vx > 0)
  /\ ~(ship.player_id = 2 /\ b.vx < 0)

\* faulty variants of BounceSpeed: one slows the ball, one has no cap
BounceSpeed_Slows(s) == Quot(s * 95, 100)
BounceSpeed_NoCap(s) == Quot(s * BALL_SPEED_INCREMENT, 100)
\* the speed PhysicsSystem.bounce_off_paddle gives a ball of speed s
BounceSpeed(s) == Min(Quot(s * BALL_SPEED_INCREMENT, 100), BALL_MAX_SPEED * 10)

\* the bounce angle in degrees: relative_y * MAX_BOUNCE_ANGLE, to the table's step
BounceAngle(b, ship) ==
  LET d == Max(-(SHIP_HEIGHT \div 2), Min(SHIP_HEIGHT \div 2, b.y - ship.y))
  IN 6 * Quot(d * MAX_BOUNCE_ANGLE, (SHIP_HEIGHT \div 2) * 6)

\* a faulty variant of BounceOffPaddle: the hit is not recorded in last_hit_by
BounceOffPaddle_Unrecorded(b, ship) ==
  LET new_speed == BounceSpeed(b.speed)
      direction == IF ship.player_id = 1 THEN 1 ELSE -1
      r == ShipRect(ship)
  IN [b EXCEPT
        !.speed = new_speed,
        !.vx = Max(Quot(Cos1000(BounceAngle(b, ship)) * new_speed, 1000),
                   Quot(new_speed * 3, 10)) * direction,
        !.vy = Quot(Sin1000(BounceAngle(b, ship)) * new_speed, 1000),
        !.x = IF direction = 1 THEN r.left + r.w + BALL_SIZE \div 2 + 5
              ELSE r.left - BALL_SIZE \div 2 - 5]
\* a faulty variant of BounceOffPaddle: the ball keeps its place and direction
BounceOffPaddle_Stays(b, ship) ==
  [b EXCEPT !.speed = BounceSpeed(@), !.last_hit_by = ship.player_id]
\* PhysicsSystem.bounce_off_paddle
BounceOffPaddle(b, ship) ==
  LET bounce_angle == BounceAngle(b, ship)
      going_right == ship.player_id = 1
      new_speed == BounceSpeed(b.speed)
      direction == IF going_right THEN 1 ELSE -1
      vx0 == Quot(Cos1000(bounce_angle) * new_speed, 1000) * direction
      vy0 == Quot(Sin1000(bounce_angle) * new_speed, 1000)
      min_x_speed == Quot(new_speed * 3, 10)
      r == ShipRect(ship)
  IN [b EXCEPT
        !.speed = new_speed,
        !.vx = IF Abs(vx0) < min_x_speed THEN min_x_speed * direction ELSE vx0,
        !.vy = vy0,
        !.x = IF going_right THEN r.left + r.w + BALL_SIZE \div 2 + 5
              ELSE r.left - BALL_SIZE \div 2 - 5,
        !.last_hit_by = ship.player_id]

(***************************************************************************)
(* systems/ai_controller.py                                                *)
(***************************************************************************)
\* AIController.__init__
NewAI(difficulty) ==
  [present |-> TRUE, difficulty |-> difficulty,
   target_y |-> SCREEN_HEIGHT \div 2, reaction_timer |-> 0, current_error |-> 0,
   is_returning_to_center |-> FALSE, last_ball_direction |-> 0,
   drift_offset |-> 0, drift_timer |-> 0, drift_target |-> 0]
\* PlayState.ai_controller = None
NoAI == [NewAI("medium") EXCEPT !.present = FALSE]

\* AIController.settings
AISettings(ai) == AI_DIFFICULTY[ai.difficulty]

\* the least k >= 1 with v + k * d >= bound (1001, more than any loop runs, if none)
StepsUntilGE(v, d, bound) ==
  IF v + d >= bound THEN 1
  ELSE IF d > 0 THEN ((bound - v - 1) \div d) + 1
  ELSE 1001
\* the least k >= 1 with v + k * d <= bound
StepsUntilLE(v, d, bound) == StepsUntilGE(-v, -d, -bound)

\* the least k >= 1 at which the k-th iteration from sim_y finds a wall.  A ball
\* that does not move vertically (dy = 0) is at most put on the wall it is
\* beyond, by every iteration alike: no iteration is told from the others
StepsUntilWall(sim_y, dy) ==
  LET half_size == (BALL_SIZE \div 2) * 1000
  IN IF dy = 0 THEN 1001
     ELSE Min(StepsUntilLE(sim_y, dy, half_size),
              StepsUntilGE(sim_y, dy, SCREEN_HEIGHT * 1000 - half_size))

\* a faulty variant of PredictStep: the walls are not simulated
PredictStep_NoWalls(sim_x, sim_y, sim_vx, sim_vy) ==
  <<sim_x + Quot(sim_vx * 16, 10), sim_y + Quot(sim_vy * 16, 10), sim_vy>>
\* one iteration of the loop of AIController._predict_ball_position, positions
\* in thousandths of a pixel, the step 0.016 s: <<sim_x, sim_y, sim_vy>>
PredictStep(sim_x, sim_y, sim_vx, sim_vy) ==
  LET half_size == (BALL_SIZE \div 2) * 1000
      y0 == sim_y + Quot(sim_vy * 16, 10)
      top == y0 - half_size <= 0
      bottom == ~top /\ y0 + half_size >= SCREEN_HEIGHT * 1000
  IN <<sim_x + Quot(sim_vx * 16, 10),
       IF top THEN half_size ELSE IF bottom THEN SCREEN_HEIGHT * 1000 - half_size ELSE y0,
       IF top THEN Abs(sim_vy) ELSE IF bottom THEN -Abs(sim_vy) ELSE sim_vy>>

\* the loop of AIController._predict_ball_position: <<sim_y returned, iterations
\* completed>>.  Between two events (a wall bounce, reaching target_x, the
\* iteration cap) every iteration adds the same increments, so the k - 1
\* iterations before the next event are taken at once and the k-th is PredictStep.
RECURSIVE AIPredictLoop(_, _, _, _, _, _)
AIPredictLoop(sim_x, sim_y, sim_vx, sim_vy, target_x, iterations) ==
  IF iterations >= 1000 THEN <<sim_y, iterations>>
  ELSE LET half_size == (BALL_SIZE \div 2) * 1000
           dx == Quot(sim_vx * 16, 10)
           dy == Quot(sim_vy * 16, 10)
           k == Min(Min(StepsUntilGE(sim_x, dx, target_x), 1000 - iterations),
                    StepsUntilWall(sim_y, dy))
           st == PredictStep(sim_x + (k - 1) * dx, sim_y + (k - 1) * dy, sim_vx, sim_vy)
       IN IF st[1] >= target_x THEN <<st[2], iterations + k - 1>>
          ELSE AIPredictLoop(st[1], st[2], sim_vx, st[3], target_x, iterations + k)
\* a faulty variant of AIPredictRun: at the iteration cap the centre is returned
AIPredictRun_CentreAtCap(b, target_x) ==
  LET r == AIPredictLoop(b.x * 1000, b.y * 1000, b.vx, b.vy, target_x * 1000, 0)
  IN IF r[2] >= 1000 THEN <<(SCREEN_HEIGHT \div 2) * 1000, r[2]>> ELSE r
\* AIController._predict_ball_position, in thousandths of a pixel, with the
\* iterations completed
AIPredictRun(b, target_x) ==
  AIPredictLoop(b.x * 1000, b.y * 1000, b.vx, b.vy, target_x * 1000, 0)
\* AIController._predict_ball_position, in pixels
AIPredictBallPosition(b, target_x) == Quot(AIPredictRun(b, target_x)[1], 1000)

\* whether the loop of PhysicsSystem.predict_ball_position has reached target_x
PhysicsReached(sim_x, sim_vx, target_x) ==
  (sim_vx > 0 /\ sim_x >= target_x) \/ (sim_vx < 0 /\ sim_x <= target_x)
\* the loop of PhysicsSystem.predict_ball_position, taken like AIPredictLoop
RECURSIVE PhysicsPredictLoop(_, _, _, _, _, _)
PhysicsPredictLoop(sim_x, sim_y, sim_vx, sim_vy, target_x, iterations) ==
  IF iterations >= 1000 THEN <<sim_y, iterations>>
  ELSE LET half_size == (BALL_SIZE \div 2) * 1000
           dx == Quot(sim_vx * 16, 10)
           dy == Quot(sim_vy * 16, 10)
           reach == IF sim_vx > 0 THEN StepsUntilGE(sim_x, dx, target_x)
                    ELSE IF sim_vx < 0 THEN StepsUntilLE(sim_x, dx, target_x)
                    ELSE 1001
           k == Min(Min(reach, 1000 - iterations),
                    StepsUntilWall(sim_y, dy))
           st == PredictStep(sim_x + (k - 1) * dx, sim_y + (k - 1) * dy, sim_vx, sim_vy)
       IN IF PhysicsReached(st[1], sim_vx, target_x) THEN <<st[2], iterations + k - 1>>
          ELSE PhysicsPredictLoop(st[1], st[2], sim_vx, st[3], target_x, iterations + k)
\* whether PhysicsSystem.predict_ball_position returns the centre at once
PhysicsNoPrediction(b, target_x) ==
  (target_x > b.x /\ b.vx <= 0) \/ (target_x < b.x /\ b.vx >= 0)
\* PhysicsSystem.predict_ball_position (max_iterations = 1000), in thousandths
\* of a pixel, with the iterations completed
PhysicsPredictRun(b, target_x) ==
  IF PhysicsNoPrediction(b, target_x) THEN <<(SCREEN_HEIGHT \div 2) * 1000, 0>>
  ELSE PhysicsPredictLoop(b.x * 1000, b.y * 1000, b.vx, b.vy, target_x * 1000, 0)
\* PhysicsSystem.predict_ball_position, in pixels
PhysicsPredictBallPosition(b, target_x) == Quot(PhysicsPredictRun(b, target_x)[1], 1000)

\* AIController._update_drift: rnd.drift is the sign of the new drift target in
\* [-max_drift, max_drift], rnd.drift_timer the new interval in [500, 2000] ms
AIUpdateDrift(ai, dt, rnd) ==
  LET set == AISettings(ai)
      timer == ai.drift_timer - dt
      expired == timer <= 0
      max_drift == Quot(SCREEN_HEIGHT * set.focus_drift, 20)
      target == IF expired THEN rnd.drift * max_drift ELSE ai.drift_target
      drift_delta == target - ai.drift_offset
  IN [ai EXCEPT !.drift_timer = IF expired THEN rnd.drift_timer ELSE timer,
                !.drift_target = target,
                !.drift_offset = @ + Quot(drift_delta * set.drift_speed * dt, 10000)]

\* AIController._get_movement_direction
AIMovementDirection(current_y, target_y) ==
  LET threshold == SHIP_HEIGHT \div 4
  IN IF target_y < current_y - threshold THEN -1
     ELSE IF target_y > current_y + threshold THEN 1 ELSE 0

\* The reaction timer is a float that only falls while the ball travels away and
\* is only ever compared with 0: an elapsed timer is kept down to -TimerFloor ms,
\* below which every value behaves alike.
TimerFloor == 500
\* a faulty variant of Elapsing: the reaction timer never runs down
Elapsing_Stopped(timer, dt) == timer
\* reaction_timer -= dt (kept above a floor that no comparison can tell apart)
Elapsing(timer, dt) == Max(timer - dt, -TimerFloor)

\* whether AIController.update recomputes target_y from a prediction
AIRecomputes(ai, dt, b) ==
  LET ball_direction == IF b.vx > 0 THEN 1 ELSE -1
      timer == IF ball_direction # ai.last_ball_direction THEN 0
               ELSE Elapsing(ai.reaction_timer, dt)
  IN b.vx > 0 /\ timer <= 0

\* AIController.update, the controller after it: rnd.error is the sign of the
\* prediction error, rnd.mistake the one-off mistake offset (0: no mistake)
AIUpdate(ai, dt, b, ship, rnd) ==
  LET a1 == AIUpdateDrift(ai, dt, rnd)
      ball_direction == IF b.vx > 0 THEN 1 ELSE -1
      changed == ball_direction # a1.last_ball_direction
      timer == IF changed THEN 0 ELSE Elapsing(a1.reaction_timer, dt)
      a2 == [a1 EXCEPT !.reaction_timer = timer, !.last_ball_direction = ball_direction]
  IN IF b.vx > 0
     THEN IF timer <= 0
          THEN [a2 EXCEPT !.is_returning_to_center = FALSE,
                          !.target_y = AIPredictBallPosition(b, ship.x)
                                       + rnd.error * AISettings(a2).prediction_error
                                       + rnd.mistake,
                          !.reaction_timer = AISettings(a2).reaction_delay]
          ELSE [a2 EXCEPT !.is_returning_to_center = FALSE]
     ELSE [a2 EXCEPT !.is_returning_to_center = TRUE, !.target_y = SCREEN_HEIGHT \div 2]
\* AIController.update, the direction it returns
AIDirection(ai_after, ship) ==
  AIMovementDirection(ship.y, ai_after.target_y + ai_after.drift_offset)

\* a faulty variant of AISetDifficulty: the controller keeps its tier
AISetDifficulty_Ignored(ai, difficulty) == ai
\* AIController.set_difficulty
AISetDifficulty(ai, difficulty) == [ai EXCEPT !.difficulty = difficulty]

(***************************************************************************)
(* ui/scoreboard.py                                                        *)
(***************************************************************************)
\* a faulty variant of GetWinner: the comparisons are strict
GetWinner_Strict(sb) ==
  IF sb.score_p1 > WINNING_SCORE THEN 1
  ELSE IF sb.score_p2 > WINNING_SCORE THEN 2 ELSE 0
\* Scoreboard.get_winner: 1, 2 or 0 (None)
GetWinner(sb) ==
  IF sb.score_p1 >= WINNING_SCORE THEN 1
  ELSE IF sb.score_p2 >= WINNING_SCORE THEN 2 ELSE 0

(***************************************************************************)
(* states/play_state.py                                                    *)
(***************************************************************************)
\* PlayState.reset_delay in ms, base_bot_speed in px/s, base_ball_speed in px/s
ResetDelay == 1000
BaseBotSpeed == 240
BaseBallSpeed == 200

\* PlayState.__init__: the entities are None until the first enter(); the record
\* holds placeholders for them and `entities` tells whether they exist
NewPlayState ==
  [game_mode |-> PVP, ai_difficulty |-> "medium", entities |-> FALSE,
   player1 |-> NewShip(1, FALSE), player2 |-> NewShip(2, FALSE),
   ball |-> NewBall(0, 1),
   scoreboard |-> [score_p1 |-> 0, score_p2 |-> 0],
   paused |-> FALSE, game_over |-> FALSE, winner |-> 0,
   pause_menu_selected |-> 0, show_exit_confirmation |-> FALSE,
   reset_timer |-> 0, ai_controller |-> NoAI,
   current_level |-> 1, level_points |-> 0, points_for_next_level |-> 3]

\* the bot and ball speeds PlayState._apply_level_speeds computes for a level
LevelBotSpeed(level) == Min(Quot(BaseBotSpeed * (100 + (level - 1) * 15), 100), 500)
LevelBallSpeed(level) == Min(Quot(BaseBallSpeed * 10 * (100 + (level - 1) * 30), 100), 600 * 10)
\* the AI tier PlayState._apply_level_speeds sets for a level
LevelDifficulty(level) ==
  IF level <= 2 THEN "easy" ELSE IF level <= 4 THEN "medium" ELSE "hard"

\* velocity.normalize() * speed
Normalized(b, speed) ==
  LET length == ISqrt(b.vx * b.vx + b.vy * b.vy)
  IN IF length > 0
     THEN [b EXCEPT !.vx = Quot(b.vx * speed, length), !.vy = Quot(b.vy * speed, length)]
     ELSE b

\* PlayState._apply_level_speeds
ApplyLevelSpeeds(s) ==
  IF s.game_mode # PVE THEN s
  ELSE LET level == s.current_level
           bot_speed == LevelBotSpeed(level)
           ball_speed == LevelBallSpeed(level)
       IN [s EXCEPT
             !.player2 = IF s.player2.is_bot THEN [@ EXCEPT !.speed = bot_speed] ELSE @,
             !.ball = Normalized([@ EXCEPT !.speed = ball_speed], ball_speed),
             !.ai_controller = IF @.present THEN AISetDifficulty(@, LevelDifficulty(level))
                               ELSE @]

\* a faulty variant of CheckLevelUp: the threshold does not grow
CheckLevelUp_SameThreshold(s) ==
  IF s.game_mode = PVE /\ s.level_points >= s.points_for_next_level
  THEN ApplyLevelSpeeds([s EXCEPT !.current_level = @ + 1, !.level_points = 0])
  ELSE s
\* a faulty variant of CheckLevelUp: every point of player 1 brings a level
CheckLevelUp_EveryPoint(s) ==
  IF s.game_mode = PVE /\ s.level_points >= 1
  THEN ApplyLevelSpeeds([s EXCEPT !.current_level = @ + 1, !.level_points = 0,
                                  !.points_for_next_level = @ + 1])
  ELSE s
\* PlayState._check_level_up
CheckLevelUp(s) ==
  IF s.game_mode # PVE THEN s
  ELSE IF s.level_points >= s.points_for_next_level
  THEN ApplyLevelSpeeds([s EXCEPT !.current_level = @ + 1, !.level_points = 0,
                                  !.points_for_next_level = @ + 1])
  ELSE s

\* PlayState._reset_game: angle and rnd_dir are the ball's random serve
ResetGame(s, angle, rnd_dir) ==
  ApplyLevelSpeeds(
    [s EXCEPT !.player1 = ShipResetScore(ShipResetPosition(@)),
              !.player2 = ShipResetScore(ShipResetPosition(@)),
              !.ball = BallReset(@, 0, angle, rnd_dir),
              !.scoreboard = [score_p1 |-> 0, score_p2 |-> 0],
              !.game_over = FALSE, !.winner = 0, !.reset_timer = 0,
              !.current_level = 1, !.level_points = 0, !.points_for_next_level = 3])

\* a faulty variant of ResetRound: the ships stay where they are
ResetRound_KeepsShips(s, towards_player, angle) ==
  [s EXCEPT !.ball = BallReset(@, towards_player, angle, 1), !.reset_timer = 0]
\* PlayState._reset_round
ResetRound(s, towards_player, angle) ==
  [s EXCEPT !.player1 = ShipResetPosition(@),
            !.player2 = ShipResetPosition(@),
            !.ball = BallReset(@, towards_player, angle, 1),
            !.reset_timer = 0]

\* PlayState._start_reset_round
StartResetRound(s, towards_player, angle) ==
  ResetRound([s EXCEPT !.reset_timer = ResetDelay], towards_player, angle)

\* PlayState._check_winner
CheckWinner(s) ==
  LET winner == GetWinner(s.scoreboard)
  IN IF winner # 0 THEN [s EXCEPT !.game_over = TRUE, !.winner = winner] ELSE s

\* a faulty variant of OnLaserTouch: the point goes to the ship that touched
OnLaserTouch_OwnPoint(s, player_id) ==
  CheckWinner(IF player_id = 1
              THEN [s EXCEPT !.player1 = ShipResetPosition(ShipAddScore(@)),
                             !.scoreboard.score_p1 = @ + 1]
              ELSE [s EXCEPT !.player2 = ShipResetPosition(ShipAddScore(@)),
                             !.scoreboard.score_p2 = @ + 1])
\* PlayState._on_laser_touch
OnLaserTouch(s, player_id) ==
  LET s1 == IF player_id = 1
            THEN [s EXCEPT !.player2 = ShipAddScore(@), !.scoreboard.score_p2 = @ + 1]
            ELSE [s EXCEPT !.player1 = ShipAddScore(@), !.scoreboard.score_p1 = @ + 1]
      s2 == IF player_id = 1 THEN [s1 EXCEPT !.player1 = ShipResetPosition(@)]
            ELSE [s1 EXCEPT !.player2 = ShipResetPosition(@)]
  IN CheckWinner(s2)

\* PlayState._check_collisions, ball against ship 1, then against ship 2
HitsShip1(s) == s.ball.vx < 0 /\ CheckBallShipCollision(s.ball, s.player1)
CollideShip1(s) ==
  IF HitsShip1(s) THEN [s EXCEPT !.ball = BounceOffPaddle(@, s.player1)] ELSE s
HitsShip2(s) == s.ball.vx > 0 /\ CheckBallShipCollision(s.ball, s.player2)
CollideShip2(s) ==
  IF HitsShip2(s) THEN [s EXCEPT !.ball = BounceOffPaddle(@, s.player2)] ELSE s
\* PlayState._check_collisions, the ships against the laser
CollideLaser(s) ==
  LET s1 == IF LaserCheckCollision(ShipRect(s.player1)) THEN OnLaserTouch(s, 1) ELSE s
  IN IF LaserCheckCollision(ShipRect(s1.player2)) THEN OnLaserTouch(s1, 2) ELSE s1
\* PlayState._check_collisions
CheckCollisions(s) == CollideLaser(CollideShip2(CollideShip1(s)))
\* the ships PlayState._check_collisions bounced the ball off, in order
PaddleHits(s) ==
  (IF HitsShip1(s) THEN <<1>> ELSE <<>>)
    \o (IF HitsShip2(CollideShip1(s)) THEN <<2>> ELSE <<>>)

\* PlayState._check_scoring: angle is the random angle of the next serve
CheckScoring(s, angle) ==
  LET res == BallIsOutOfBounds(s.ball)
      out == res[1]
      scorer == res[2]
  IN IF ~out THEN s
     ELSE IF scorer = 1
     THEN LET s1 == [s EXCEPT !.player1 = ShipAddScore(@), !.scoreboard.score_p1 = @ + 1]
              s2 == IF s1.game_mode = PVE
                    THEN CheckLevelUp([s1 EXCEPT !.level_points = @ + 1])
                    ELSE s1
          IN CheckWinner(StartResetRound(s2, 2, angle))
     ELSE IF scorer = 2
     THEN LET s1 == [s EXCEPT !.player2 = ShipAddScore(@), !.scoreboard.score_p2 = @ + 1]
          IN CheckWinner(StartResetRound(s1, 1, angle))
     ELSE CheckWinner(s)

(***************************************************************************)
(* systems/input_handler.py                                                *)
(***************************************************************************)
\* InputHandler.update: the commands are what pygame.key.get_pressed() holds
\* for each player ("up", "down", or "none" for neither or both)
InputUpdate(s, p1cmd, p2cmd) ==
  [s EXCEPT !.player1 = IF ~@.is_bot THEN ShipCommand(@, p1cmd) ELSE @,
            !.player2 = IF ~@.is_bot THEN ShipCommand(@, p2cmd) ELSE @]

\* the keys of CONTROLS['player1'] and CONTROLS['player2']
MovementKeys == {"K_w", "K_s", "K_UP", "K_DOWN"}
\* InputHandler.handle_event, the set _keys_pressed.  Only its movement keys are
\* ever read (by _on_key_up), and only they are kept.
InputKeys(keys, ev) ==
  IF ev.type = "KEYDOWN" THEN keys \cup ({ev.key} \cap MovementKeys) ELSE keys \ {ev.key}

\* InputHandler._on_key_down / _on_key_up for one ship: its controls are the
\* keys up_key and down_key, keys is _keys_pressed after the event
InputShipEvent(ship, ev, up_key, down_key, keys) ==
  IF ship.is_bot THEN ship
  ELSE IF ev.type = "KEYDOWN"
  THEN IF ev.key = up_key THEN ShipCommand(ship, "up")
       ELSE IF ev.key = down_key THEN ShipCommand(ship, "down") ELSE ship
  ELSE IF ev.key = up_key
       THEN IF down_key \notin keys THEN ShipCommand(ship, "none")
            ELSE ShipCommand(ship, "down")
       ELSE IF ev.key = down_key
       THEN IF up_key \notin keys THEN ShipCommand(ship, "none")
            ELSE ShipCommand(ship, "up")
       ELSE ship
\* InputHandler.handle_event, the ships
InputHandleEvent(s, ev, keys) ==
  [s EXCEPT !.player1 = InputShipEvent(@, ev, "K_w", "K_s", keys),
            !.player2 = InputShipEvent(@, ev, "K_UP", "K_DOWN", keys)]
\* InputHandler.clear, the ships
InputClear(s) ==
  [s EXCEPT !.player1 = ShipCommand(@, "none"), !.player2 = ShipCommand(@, "none")]

(***************************************************************************)
(* PlayState: enter, exit, handle_event, update                            *)
(***************************************************************************)
\* PlayState.set_game_mode
SetGameMode(s, mode, difficulty) ==
  [s EXCEPT !.game_mode = mode, !.ai_difficulty = difficulty]

\* PlayState.enter (with _init_ai): angle and rnd_dir are the ball's random serve
PlayEnter(s, angle, rnd_dir) ==
  LET s1 == [s EXCEPT !.entities = TRUE,
                      !.player1 = NewShip(1, FALSE),
                      !.player2 = NewShip(2, s.game_mode = PVE),
                      !.ball = NewBall(angle, rnd_dir),
                      !.ai_controller = IF s.game_mode = PVE THEN NewAI(s.ai_difficulty)
                                        ELSE @]
  IN ResetGame(s1, angle, rnd_dir)

\* PlayState.exit
PlayExit(s) == InputClear(s)

\* PlayState._select_pause_option
SelectPauseOption(s) ==
  IF s.pause_menu_selected = 0 THEN [s EXCEPT !.paused = FALSE]
  ELSE IF s.pause_menu_selected = 1 THEN [s EXCEPT !.show_exit_confirmation = TRUE]
  ELSE s

\* PlayState._handle_pause_menu_input
HandlePauseMenuInput(s, key) ==
  IF key \in {"K_UP", "K_w"} THEN [s EXCEPT !.pause_menu_selected = (@ - 1) % 2]
  ELSE IF key \in {"K_DOWN", "K_s"} THEN [s EXCEPT !.pause_menu_selected = (@ + 1) % 2]
  ELSE IF key \in {"K_RETURN", "K_SPACE"} THEN SelectPauseOption(s)
  ELSE IF key = "K_ESCAPE" THEN [s EXCEPT !.paused = FALSE]
  ELSE s

\* a faulty variant of HandleConfirmationInput: cancelling also resumes the game
HandleConfirmationInput_CancelResumes(s, key) ==
  IF key \in {"K_s", "K_RETURN", "K_n", "K_ESCAPE"}
  THEN [s EXCEPT !.show_exit_confirmation = FALSE, !.paused = FALSE]
  ELSE s
\* PlayState._handle_confirmation_input
HandleConfirmationInput(s, key) ==
  IF key \in {"K_s", "K_RETURN"}
  THEN [s EXCEPT !.show_exit_confirmation = FALSE, !.paused = FALSE]
  ELSE IF key \in {"K_n", "K_ESCAPE"} THEN [s EXCEPT !.show_exit_confirmation = FALSE]
  ELSE s

\* a faulty variant of PlayForwardsEvent: events go on after the game is over
PlayForwardsEvent_AfterGameOver(s, ev) ==
  /\ ~(ev.type = "KEYDOWN" /\ (s.show_exit_confirmation \/ s.paused))
  /\ ~(ev.type = "KEYDOWN" /\ ev.key = "K_ESCAPE")
  /\ ~(ev.type = "KEYDOWN" /\ s.game_over /\ ev.key \in {"K_SPACE", "K_RETURN"})
  /\ ~s.paused
\* whether PlayState.handle_event passes the event on to the input handler
PlayForwardsEvent(s, ev) ==
  /\ ~(ev.type = "KEYDOWN" /\ (s.show_exit_confirmation \/ s.paused))
  /\ ~(ev.type = "KEYDOWN" /\ ev.key = "K_ESCAPE")
  /\ ~(ev.type = "KEYDOWN" /\ s.game_over /\ ev.key \in {"K_SPACE", "K_RETURN"})
  /\ ~s.paused /\ ~s.game_over

\* whether PlayState.handle_event calls state_manager.change_state(MENU)
PlayRequestsMenu(s, ev) ==
  /\ ev.type = "KEYDOWN"
  /\ \/ s.show_exit_confirmation /\ ev.key \in {"K_s", "K_RETURN"}
     \/ ~s.show_exit_confirmation /\ ~s.paused /\ ev.key = "K_ESCAPE" /\ s.game_over

\* whether PlayState.handle_event calls _reset_game
PlayEventResets(s, ev) ==
  /\ ev.type = "KEYDOWN" /\ ~s.show_exit_confirmation /\ ~s.paused
  /\ ev.key # "K_ESCAPE" /\ s.game_over /\ ev.key \in {"K_SPACE", "K_RETURN"}

\* PlayState.handle_event: keys is _keys_pressed after the event if it is passed
\* on, angle and rnd_dir are the ball's random serve if the game is reset
PlayHandleEvent(s, ev, keys, angle, rnd_dir) ==
  IF ev.type = "KEYDOWN" /\ s.show_exit_confirmation
  THEN HandleConfirmationInput(s, ev.key)
  ELSE IF ev.type = "KEYDOWN" /\ s.paused THEN HandlePauseMenuInput(s, ev.key)
  ELSE IF ev.type = "KEYDOWN" /\ ev.key = "K_ESCAPE"
  THEN IF s.game_over THEN s ELSE [s EXCEPT !.paused = TRUE, !.pause_menu_selected = 0]
  ELSE IF ev.type = "KEYDOWN" /\ s.game_over /\ ev.key \in {"K_SPACE", "K_RETURN"}
  THEN ResetGame(s, angle, rnd_dir)
  ELSE IF ~s.paused /\ ~s.game_over THEN InputHandleEvent(s, ev, keys)
  ELSE s


\* a faulty variant of PlayMove: the AI steers player 2 whenever a controller
\* is held, bot or not
PlayMove_AIWheneverHeld(s, dt, i) ==
  LET s1 == InputUpdate(s, i.p1cmd, i.p2cmd)
      ai == AIUpdate(s1.ai_controller, dt, s1.ball, s1.player2, i)
      s2 == IF s1.ai_controller.present
            THEN [s1 EXCEPT !.ai_controller = ai,
                            !.player2 = ShipSetMovement(@, AIDirection(ai, s1.player2))]
            ELSE s1
  IN [s2 EXCEPT !.player1 = ShipUpdate(@, dt),
                !.player2 = ShipUpdate(@, dt),
                !.ball = BallUpdate(@, dt, i.jitter)]
\* PlayState.update up to the entity updates: the input handler, the AI, the
\* ships and the ball.  i holds what the step reads from outside: the key state
\* (p1cmd, p2cmd) and the random draws (drift, drift_timer, error, mistake, jitter)
PlayMove(s, dt, i) ==
  LET s1 == InputUpdate(s, i.p1cmd, i.p2cmd)
      ai == AIUpdate(s1.ai_controller, dt, s1.ball, s1.player2, i)
      s2 == IF s1.ai_controller.present /\ s1.player2.is_bot
            THEN [s1 EXCEPT !.ai_controller = ai,
                            !.player2 = ShipSetMovement(@, AIDirection(ai, s1.player2))]
            ELSE s1
  IN [s2 EXCEPT !.player1 = ShipUpdate(@, dt),
                !.player2 = ShipUpdate(@, dt),
                !.ball = BallUpdate(@, dt, i.jitter)]

\* faulty variants of PlaySuspended: one forgets game_over, one forgets paused
PlaySuspended_IgnoresGameOver(s) == s.paused
PlaySuspended_IgnoresPause(s) == s.game_over
\* whether PlayState.update returns at once
PlaySuspended(s) == s.paused \/ s.game_over

\* whether PlayState.update gets as far as moving the entities
PlayRuns(s) == ~PlaySuspended(s) /\ s.reset_timer <= 0

\* PlayState.update, given the state `hit` that its entity updates and
\* _check_collisions lead to if they run; angle is the random angle of the serve
\* after a point
PlayUpdateFrom(s, dt, hit, angle) ==
  IF PlaySuspended(s) THEN s
  ELSE IF s.reset_timer > 0 THEN [s EXCEPT !.reset_timer = @ - dt]
  ELSE CheckScoring(hit, angle)

\* PlayState.update
PlayUpdate(s, dt, i) ==
  PlayUpdateFrom(s, dt, CheckCollisions(PlayMove(s, dt, i)), i.angle)

(***************************************************************************)
(* states/menu_state.py                                                    *)
(***************************************************************************)
\* MenuState.menu_items, their actions
MenuActions == <<"play_bot", "play_pvp", "quit">>
\* MenuState._move_selection
MenuMoveSelection(m, direction) ==
  LET i == m.selected_index + direction
  IN [m EXCEPT !.selected_index = IF i < 0 THEN Len(MenuActions) - 1
                                  ELSE IF i >= Len(MenuActions) THEN 0 ELSE i]
\* MenuState.handle_event, the menu itself
MenuHandleEvent(m, ev) ==
  IF ev.type # "KEYDOWN" THEN m
  ELSE IF ev.key \in {"K_UP", "K_w"} THEN MenuMoveSelection(m, -1)
  ELSE IF ev.key \in {"K_DOWN", "K_s"} THEN MenuMoveSelection(m, 1)
  ELSE m
\* the action MenuState.handle_event selects ("" when none)
MenuSelected(m, ev) ==
  IF ev.type = "KEYDOWN" /\ ev.key \in {"K_RETURN", "K_SPACE"}
  THEN MenuActions[m.selected_index + 1] ELSE ""
\* whether MenuState.handle_event calls game.quit_game()
MenuQuits(m, ev) ==
  \/ MenuSelected(m, ev) = "quit"
  \/ ev.type = "KEYDOWN" /\ ev.key = "K_ESCAPE" /\ ev.key \notin {"K_UP", "K_w", "K_DOWN", "K_s"}
\* the mode MenuState._start_game starts ("" when no game is started)
MenuStarts(m, ev) ==
  IF MenuSelected(m, ev) = "play_bot" THEN PVE
  ELSE IF MenuSelected(m, ev) = "play_pvp" THEN PVP ELSE ""

(***************************************************************************)
(* managers/state_manager.py and core/game.py                              *)
(***************************************************************************)
\* the names of class GameState; only MENU and PLAYING are registered
GameStates == {MENU, "ship_select", PLAYING, "paused", "game_over"}

\* a faulty variant of ChangeState: any name is accepted
ChangeState_AnyName(m, state_name) == [m EXCEPT !.pending = state_name]
\* StateManager.change_state(state_name), deferred; both states are registered
ChangeState(m, state_name) ==
  IF state_name \notin {MENU, PLAYING} THEN m ELSE [m EXCEPT !.pending = state_name]

\* what the last step was ("event" or "update") and, for a PlayState.update
\* that ran, the ships the ball bounced off, what is_out_of_bounds returned and
\* the ball's x it was called with
NoHistory == [op |-> "init", hits |-> <<>>, out |-> <<FALSE, 0>>, exit_x |-> 0]

\* Game.__init__: both states registered, the menu entered at once
Init ==
  /\ running = TRUE
  /\ pc = "events"
  /\ sm = [current |-> MENU, pending |-> "none"]
  /\ menu = [selected_index |-> 0]
  /\ ps = NewPlayState
  /\ inp = {}
  /\ last = NoHistory

\* Game._handle_events, one key event, handled by the current state
KeyEvent(env) ==
  /\ pc = "events"
  /\ \E ev \in env.events :
       /\ last' = [NoHistory EXCEPT !.op = "event"]
       /\ IF sm.current = MENU
          THEN /\ menu' = MenuHandleEvent(menu, ev)
               /\ running' = IF MenuQuits(menu, ev) THEN FALSE ELSE running
               /\ IF MenuStarts(menu, ev) # ""
                  THEN /\ ps' = SetGameMode(ps, MenuStarts(menu, ev), "medium")
                       /\ sm' = ChangeState(sm, PLAYING)
                  ELSE UNCHANGED <<ps, sm>>
               /\ UNCHANGED <<pc, inp>>
          ELSE /\ \E angle \in (IF PlayEventResets(ps, ev) THEN env.angles ELSE {0}),
                     rnd_dir \in (IF PlayEventResets(ps, ev) THEN {-1, 1} ELSE {1}) :
                    ps' = PlayHandleEvent(ps, ev, InputKeys(inp, ev), angle, rnd_dir)
               /\ inp' = IF PlayForwardsEvent(ps, ev) THEN InputKeys(inp, ev) ELSE inp
               /\ sm' = IF PlayRequestsMenu(ps, ev) THEN ChangeState(sm, MENU) ELSE sm
               /\ UNCHANGED <<running, pc, menu>>

\* points of the match so far
Points(s) == s.scoreboard.score_p1 + s.scoreboard.score_p2

\* points explored per match
MaxPoints == 1

\* the random draws and key states one PlayState.update may read in state s
UpdateInputs(s, dt, env) ==
  LET ai_runs == s.ai_controller.present /\ s.player2.is_bot
      drifts == ai_runs /\ s.ai_controller.drift_timer - dt <= 0
      recomputes == ai_runs /\ AIRecomputes(s.ai_controller, dt, s.ball)
      bounces == BallAtWall(BallMove(s.ball, dt))
  IN IF ~PlayRuns(s)
     THEN {[p1cmd |-> "none", p2cmd |-> "none", drift |-> 0, drift_timer |-> 0,
            error |-> 0, mistake |-> 0, jitter |-> 0]}
     ELSE [p1cmd : env.p1cmds,
           p2cmd : IF s.player2.is_bot THEN {"none"} ELSE env.p2cmds,
           drift : IF drifts THEN env.drifts ELSE {0},
           drift_timer : IF drifts THEN env.drift_timers ELSE {0},
           error : IF recomputes THEN env.errors ELSE {0},
           mistake : IF recomputes THEN env.mistakes ELSE {0},
           jitter : IF bounces THEN env.jitters ELSE {0}]

\* Game._update and _render, one frame: StateManager.update applies the pending
\* state change (exit of the old state, enter of the new) and updates the current
\* state; then Game.run tests `running`
FrameUpdate(env) ==
  /\ pc = "events"
  /\ pc' = IF running THEN "events" ELSE "done"
  /\ \E dt \in env.dts :
       LET change == sm.pending # "none"
           current == IF change THEN sm.pending ELSE sm.current
           left == IF change /\ sm.current = PLAYING THEN PlayExit(ps) ELSE ps
       IN /\ sm' = [current |-> current, pending |-> "none"]
          /\ menu' = IF change /\ current = MENU THEN [selected_index |-> 0] ELSE menu
          /\ inp' = IF change /\ sm.current = PLAYING THEN {} ELSE inp
          /\ IF current = MENU
             THEN /\ ps' = left
                  /\ last' = [NoHistory EXCEPT !.op = "update"]
             ELSE \E angle0 \in (IF change THEN env.angles ELSE {0}),
                     rnd_dir \in (IF change THEN {-1, 1} ELSE {1}) :
                    LET s == IF change THEN PlayEnter(left, angle0, rnd_dir) ELSE left
                    IN \E i \in UpdateInputs(s, dt, env) :
                         LET moved == PlayMove(s, dt, i)
                             hit == CheckCollisions(moved)
                             out == IF PlayRuns(s) THEN BallIsOutOfBounds(hit.ball)
                                    ELSE <<FALSE, 0>>
                         IN /\ out[1] => Points(s) < env.max_points
                            /\ \E angle \in (IF out[1] THEN env.angles ELSE {0}) :
                                 ps' = PlayUpdateFrom(s, dt, hit, angle)
                            /\ last' = [op |-> "update",
                                        hits |-> IF PlayRuns(s) THEN PaddleHits(moved)
                                                 ELSE <<>>,
                                        out |-> out,
                                        exit_x |-> IF PlayRuns(s) THEN hit.ball.x ELSE 0]
  /\ UNCHANGED running

\* what the environment supplies: frame times (ms), key events, key states,
\* the values the random draws take, and the number of points played
MainEnv ==
  [dts |-> {500},
   events |-> [type : {"KEYDOWN"}, key : {"K_ESCAPE", "K_RETURN", "K_DOWN"}]
              \cup [type : {"KEYUP"}, key : {"K_DOWN"}],
   p1cmds |-> {"none"},
   p2cmds |-> {"none"},
   angles |-> {0},
   jitters |-> {0},
   drifts |-> {0},
   drift_timers |-> {2000},
   errors |-> {0},
   mistakes |-> {0},
   max_points |-> MaxPoints]

\* the game from its start through the menu, the pause menu and the first
\* points, with serves along the axis and ships that hold their place
Next ==
  \/ KeyEvent(MainEnv)
  \/ FrameUpdate(MainEnv)

Spec == Init /\ [][Next]_vars

\* Game.change_state(new_state) called between two events with any name of
\* GameState: StateManager.change_state, deferred
GameChangeState ==
  /\ pc = "events"
  /\ \E state_name \in GameStates :
       /\ sm' = ChangeState(sm, state_name)
       /\ last' = [op |-> "change_state", hits |-> <<>>, out |-> <<FALSE, 0>>,
                   exit_x |-> 0, state_name |-> state_name]
  /\ UNCHANGED <<running, pc, menu, ps, inp>>

\* RETURN and ESC only, ships that hold their place, serves along the axis
StatesEnv ==
  [dts |-> {500},
   events |-> [type : {"KEYDOWN"}, key : {"K_ESCAPE", "K_RETURN"}],
   p1cmds |-> {"none"},
   p2cmds |-> {"none"},
   angles |-> {0},
   jitters |-> {0},
   drifts |-> {0},
   drift_timers |-> {2000},
   errors |-> {0},
   mistakes |-> {0},
   max_points |-> MaxPoints]

\* the game with state changes requested from outside the states too
NextStates ==
  \/ GameChangeState
  \/ KeyEvent(StatesEnv)
  \/ FrameUpdate(StatesEnv)

SpecStates == Init /\ [][NextStates]_vars

\* the menu with either game mode selected
InitMatch ==
  /\ running = TRUE
  /\ pc = "events"
  /\ sm = [current |-> MENU, pending |-> "none"]
  /\ menu \in [selected_index : {0, 1}]
  /\ ps = NewPlayState
  /\ inp = {}
  /\ last = NoHistory

\* whole matches, paused, restarted and left for the menu: serves along the
\* axis, each player holds or moves up, the AI's draws are all zero
MatchEnv ==
  [dts |-> {500},
   events |-> [type : {"KEYDOWN"}, key : {"K_RETURN", "K_ESCAPE"}],
   p1cmds |-> {"none", "up"},
   p2cmds |-> {"none", "up"},
   angles |-> {0},
   jitters |-> {0},
   drifts |-> {0},
   drift_timers |-> {2000},
   errors |-> {0},
   mistakes |-> {0},
   max_points |-> 2 * WINNING_SCORE]

NextMatch ==
  \/ KeyEvent(MatchEnv)
  \/ FrameUpdate(MatchEnv)

SpecMatch == InitMatch /\ [][NextMatch]_vars

\* the first points of a match: oblique serves, player 1 steered up and player 2
\* down, wall bounces with either jitter, an AI that errs
PlayEnv ==
  [dts |-> {500},
   events |-> [type : {"KEYDOWN"}, key : {"K_RETURN"}],
   p1cmds |-> {"none", "up"},
   p2cmds |-> {"none", "down"},
   angles |-> {0, 45},
   jitters |-> {-50, 50},
   drifts |-> {1},
   drift_timers |-> {1000},
   errors |-> {-1, 1},
   mistakes |-> {0},
   max_points |-> MaxPoints]

NextPlay ==
  \/ KeyEvent(PlayEnv)
  \/ FrameUpdate(PlayEnv)

SpecPlay == InitMatch /\ [][NextPlay]_vars

\* one endless rally: short frames, serves along the axis, ships that hold
\* their place in front of the ball
RallyEnv ==
  [dts |-> {100},
   events |-> [type : {"KEYDOWN"}, key : {"K_RETURN"}],
   p1cmds |-> {"none"},
   p2cmds |-> {"none"},
   angles |-> {0},
   jitters |-> {0},
   drifts |-> {0},
   drift_timers |-> {2000},
   errors |-> {0},
   mistakes |-> {0},
   max_points |-> 2 * WINNING_SCORE]

NextRally ==
  \/ KeyEvent(RallyEnv)
  \/ FrameUpdate(RallyEnv)

SpecRally == InitMatch /\ [][NextRally]_vars

\* the first point against a bot that errs: short frames, so that several
\* updates fall within one reaction delay; serves along the axis
BotEnv ==
  [dts |-> {100},
   events |-> [type : {"KEYDOWN"}, key : {"K_RETURN"}],
   p1cmds |-> {"none"},
   p2cmds |-> {"none"},
   angles |-> {0, 45},
   jitters |-> {0},
   drifts |-> {0},
   drift_timers |-> {2000},
   errors |-> {1},
   mistakes |-> {0},
   max_points |-> MaxPoints]

NextBot ==
  \/ KeyEvent(BotEnv)
  \/ FrameUpdate(BotEnv)

SpecBot == InitMatch /\ [][NextBot]_vars

\* whole matches with the keys of the menus and a movement key of player 2:
\* player 1 holds W throughout and a human player 2 holds DOWN, so neither
\* returns a ball served along the axis; the AI's draws are all zero
KeysEnv ==
  [dts |-> {500},
   events |-> [type : {"KEYDOWN"}, key : {"K_RETURN", "K_ESCAPE", "K_DOWN"}]
                \cup [type : {"KEYUP"}, key : {"K_DOWN"}],
   p1cmds |-> {"up"},
   p2cmds |-> {"down"},
   angles |-> {0},
   jitters |-> {0},
   drifts |-> {0},
   drift_timers |-> {2000},
   errors |-> {0},
   mistakes |-> {0},
   max_points |-> 2 * WINNING_SCORE]

NextKeys ==
  \/ KeyEvent(KeysEnv)
  \/ FrameUpdate(KeysEnv)

SpecKeys == InitMatch /\ [][NextKeys]_vars

(***************************************************************************)
(* PlayState._check_scoring on its own, for balls at and around both exits *)
(***************************************************************************)
\* PlayState as _check_scoring leaves it when the ball has gone out on the
\* side where `scorer` scores
Scored(s, scorer) ==
  CheckScoring([s EXCEPT !.ball.x = IF scorer = 1 THEN SCREEN_WIDTH + BALL_SIZE + 1
                                    ELSE -BALL_SIZE - 1], 0)

\* a match in which player 1 has scored n1 points and then player 2 n2 (each
\* point is played on the finished record of the one before)
RECURSIVE AfterPoints(_, _, _)
AfterPoints(s, n1, n2) ==
  IF n1 + n2 = 0 THEN s
  ELSE LET next == Scored(s, IF n1 > 0 THEN 1 ELSE 2)
       IN IF next.entities
          THEN AfterPoints(next, IF n1 > 0 THEN n1 - 1 ELSE 0, IF n1 > 0 THEN n2 ELSE n2 - 1)
          ELSE s

\* ball positions at, next to and away from the two exits
ExitXs ==
  {-BALL_SIZE - 2, -BALL_SIZE - 1, -BALL_SIZE, -BALL_SIZE + 1, 0, SCREEN_WIDTH \div 2,
   SCREEN_WIDTH, SCREEN_WIDTH + BALL_SIZE - 1, SCREEN_WIDTH + BALL_SIZE,
   SCREEN_WIDTH + BALL_SIZE + 1, SCREEN_WIDTH + BALL_SIZE + 2}

\* inside PlayState.update, the entities moved and the collisions checked: a
\* match of either mode at any score short of the winning one, the ball at x
InitScoring ==
  /\ running = TRUE
  /\ pc = "scoring"
  /\ sm = [current |-> PLAYING, pending |-> "none"]
  /\ menu = [selected_index |-> 0]
  /\ inp = {}
  /\ last = NoHistory
  /\ \E mode \in {PVP, PVE}, n1 \in 0 .. WINNING_SCORE - 1, n2 \in 0 .. WINNING_SCORE - 1,
         x \in ExitXs :
       LET s == AfterPoints(PlayEnter(SetGameMode(NewPlayState, mode, "medium"), 0, 1),
                            n1, n2)
       IN ps = [s EXCEPT !.ball.x = x,
                         !.ball.vx = IF x < SCREEN_WIDTH \div 2 THEN -Abs(@) ELSE Abs(@)]

\* PlayState._check_scoring and the end of PlayState.update
CheckScoringStep ==
  /\ pc = "scoring"
  /\ pc' = "events"
  /\ \E angle \in {0, 45} : ps' = CheckScoring(ps, angle)
  /\ last' = [op |-> "scoring", hits |-> <<>>, out |-> BallIsOutOfBounds(ps.ball),
              exit_x |-> ps.ball.x]
  /\ UNCHANGED <<running, sm, menu, inp>>

NextScoring == CheckScoringStep

SpecScoring == InitScoring /\ [][NextScoring]_vars

(***************************************************************************)
(* Ball._check_wall_collision on its own, for balls at and around the walls *)
(***************************************************************************)
\* the ball's y as Ball.update has moved it: beyond, at, next to and away from
\* the top and the bottom wall
WallYs ==
  {-5, BALL_SIZE \div 2 - 1, BALL_SIZE \div 2, BALL_SIZE \div 2 + 1, SCREEN_HEIGHT \div 2,
   SCREEN_HEIGHT - BALL_SIZE \div 2 - 1, SCREEN_HEIGHT - BALL_SIZE \div 2,
   SCREEN_HEIGHT - BALL_SIZE \div 2 + 1, SCREEN_HEIGHT + 5}
\* vertical velocities, slow and fast, in tenths of a pixel per second
WallVys == {-3000, -500, -51, -50, -20, 0, 20, 50, 51, 500, 3000}
\* values of random.uniform(-WALL_BOUNCE_VARIATION, WALL_BOUNCE_VARIATION), in tenths
WallJitters ==
  {-WALL_BOUNCE_VARIATION * 10, -30, 0, 30, WALL_BOUNCE_VARIATION * 10}

\* inside Ball.update of a match, the position moved and the walls not yet checked
InitWall ==
  /\ running = TRUE
  /\ pc = "wall"
  /\ sm = [current |-> PLAYING, pending |-> "none"]
  /\ menu = [selected_index |-> 0]
  /\ inp = {}
  /\ last = NoHistory
  /\ \E y \in WallYs, vy \in WallVys :
       ps = [PlayEnter(SetGameMode(NewPlayState, PVP, "medium"), 0, 1)
               EXCEPT !.ball.y = y, !.ball.vy = vy]

\* Ball._check_wall_collision
WallCollisionStep ==
  /\ pc = "wall"
  /\ pc' = "events"
  /\ \E jitter \in WallJitters : ps' = [ps EXCEPT !.ball = BallCheckWallCollision(@, jitter)]
  /\ last' = [NoHistory EXCEPT !.op = "wall"]
  /\ UNCHANGED <<running, sm, menu, inp>>

NextWall == WallCollisionStep

SpecWall == InitWall /\ [][NextWall]_vars

(***************************************************************************)
(* The barrier check of PlayState._check_collisions on its own.  No run of *)
(* the game puts a ship on the barrier; here the check is given play       *)
(* states in which a ship has been placed there.                           *)
(***************************************************************************)
\* which ships are placed on the barrier
BarrierCases == {{}, {1}, {2}, {1, 2}}
\* where the ship placed on the barrier is, vertically
BarrierYs == {ShipMinY, SCREEN_HEIGHT \div 2}

\* inside PlayState._check_collisions, the ball's collisions done: a match of
\* either mode at any score short of the winning one, the ball in flight, the
\* ships of `on` with their centre on the barrier
InitLaser ==
  /\ running = TRUE
  /\ pc = "laser"
  /\ sm = [current |-> PLAYING, pending |-> "none"]
  /\ menu = [selected_index |-> 0]
  /\ inp = {}
  /\ last = NoHistory
  /\ \E mode \in {PVP, PVE}, n1 \in 0 .. WINNING_SCORE - 1, n2 \in 0 .. WINNING_SCORE - 1,
         on \in BarrierCases, y \in BarrierYs :
       LET s == AfterPoints(PlayEnter(SetGameMode(NewPlayState, mode, "medium"), 0, 1),
                            n1, n2)
       IN ps = [s EXCEPT !.ball = BallMove(@, 500),
                         !.player1.x = IF 1 \in on THEN SCREEN_WIDTH \div 2 ELSE @,
                         !.player1.y = IF 1 \in on THEN y ELSE @,
                         !.player2.x = IF 2 \in on THEN SCREEN_WIDTH \div 2 ELSE @,
                         !.player2.y = IF 2 \in on THEN y ELSE @]

\* PlayState._check_collisions, the ships against the laser
LaserCheckStep ==
  /\ pc = "laser"
  /\ pc' = "events"
  /\ ps' = CollideLaser(ps)
  /\ last' = [NoHistory EXCEPT !.op = "laser"]
  /\ UNCHANGED <<running, sm, menu, inp>>

NextLaser == LaserCheckStep

SpecLaser == InitLaser /\ [][NextLaser]_vars

\* the rest of the match after the laser check, in the environment of SpecMatch
NextScores ==
  \/ LaserCheckStep
  \/ KeyEvent(MatchEnv)
  \/ FrameUpdate(MatchEnv)

\* matches from any score on, with laser penalties, ball exits and resets
SpecScores == InitLaser /\ [][NextScores]_vars

(***************************************************************************)
(* The two trajectory predictors on their own                              *)
(***************************************************************************)
\* ball positions on and off the screen, velocities in tenths of a pixel per
\* second (none, crawling, slow, fast; up, level, down), and the x to predict at
PredictXs == {100, SHIP_P2_X + SHIP_WIDTH \div 2, SHIP_P2_X + SHIP_WIDTH \div 2 + 60}
PredictYs == {-50, BALL_SIZE \div 2, SCREEN_HEIGHT \div 2, SCREEN_HEIGHT - BALL_SIZE \div 2}
PredictVxs == {-3500, 0, 1, 1050, 7000}
PredictVys == {-6000, -1, 0, 2000}
PredictTargets == {SHIP_P1_X + SHIP_WIDTH \div 2, SHIP_P2_X + SHIP_WIDTH \div 2}

\* a PVE match, the ball anywhere, before a prediction for target_x
InitPredict ==
  /\ running = TRUE
  /\ pc = "predict"
  /\ sm = [current |-> PLAYING, pending |-> "none"]
  /\ menu = [selected_index |-> 0]
  /\ inp = {}
  /\ \E target_x \in PredictTargets :
       last = [op |-> "init", target_x |-> target_x, ai |-> <<0, 0>>, physics |-> <<0, 0>>]
  /\ \E x \in PredictXs, y \in PredictYs, vx \in PredictVxs, vy \in PredictVys :
       ps = [PlayEnter(SetGameMode(NewPlayState, PVE, "medium"), 0, 1)
               EXCEPT !.ball.x = x, !.ball.y = y, !.ball.vx = vx, !.ball.vy = vy]

\* AIController._predict_ball_position and PhysicsSystem.predict_ball_position
\* for the ball and last.target_x: what each returns and after how many iterations
PredictionStep ==
  /\ pc = "predict"
  /\ pc' = "events"
  /\ last' = [op |-> "predict", target_x |-> last.target_x,
              ai |-> AIPredictRun(ps.ball, last.target_x),
              physics |-> PhysicsPredictRun(ps.ball, last.target_x)]
  /\ UNCHANGED <<running, sm, menu, ps, inp>>

NextPredict == PredictionStep

SpecPredict == InitPredict /\ [][NextPredict]_vars

(***************************************************************************)
(* Properties                                                              *)
(***************************************************************************)
Score1 == ps.scoreboard.score_p1
Score2 == ps.scoreboard.score_p2
\* the scores and the winner are those of the state before the step
ScoresFrozen ==
  /\ ps'.scoreboard = ps.scoreboard
  /\ ps'.player1.score = ps.player1.score
  /\ ps'.player2.score = ps.player2.score
  /\ ps'.winner = ps.winner
\* the step is a full match reset
MatchReset ==
  /\ ~ps'.game_over
  /\ ps'.winner = 0
  /\ ps'.scoreboard = [score_p1 |-> 0, score_p2 |-> 0]

\* C1: once a score reaches WINNING_SCORE the match is over with one winner,
\* and from then on every step (update or key event) leaves both scores and the
\* winner as they are, unless it is a full match reset.
C1_WinnerIsFinal ==
  /\ []((Score1 >= WINNING_SCORE \/ Score2 >= WINNING_SCORE)
          => ps.game_over /\ ps.winner \in {1, 2})
  /\ [][ps.game_over => (ps'.game_over /\ ScoresFrozen) \/ MatchReset]_vars
\* a match won 10-3 by player 1, after an update that found it over
C1_Witness ==
  /\ ps.game_over /\ ps.winner = 1
  /\ Score1 = WINNING_SCORE /\ Score2 = 3
  /\ last.op = "update" /\ ~last.out[1]

\* C2: between updates game_over holds exactly when some score is at least
\* WINNING_SCORE; then the winner's score is WINNING_SCORE exactly and the
\* other's is below it; no score ever exceeds WINNING_SCORE.
C2_GameOverIffWinningScore ==
  /\ ps.game_over <=> (Score1 >= WINNING_SCORE \/ Score2 >= WINNING_SCORE)
  /\ Score1 <= WINNING_SCORE /\ Score2 <= WINNING_SCORE
  /\ ps.game_over =>
       \/ ps.winner = 1 /\ Score1 = WINNING_SCORE /\ Score2 < WINNING_SCORE
       \/ ps.winner = 2 /\ Score2 = WINNING_SCORE /\ Score1 < WINNING_SCORE
\* a match won by player 2 against 9 points of player 1
C2_Witness ==
  /\ ps.game_over /\ ps.winner = 2
  /\ Score2 = WINNING_SCORE /\ Score1 = WINNING_SCORE - 1

\* C3: _check_scoring on a ball with x + BALL_SIZE < 0 gets (True, 2) from
\* is_out_of_bounds and gives player 2 one point and player 1 none; with
\* x - BALL_SIZE > SCREEN_WIDTH it gets (True, 1) and gives player 1 one point
\* and player 2 none; otherwise it gets (False, 0) and no score changes.
C3_ExitAwardsOnePoint ==
  [][last'.op = "scoring" =>
       LET x == ps.ball.x
           gain1 == IF x - BALL_SIZE > SCREEN_WIDTH /\ ~(x + BALL_SIZE < 0) THEN 1 ELSE 0
           gain2 == IF x + BALL_SIZE < 0 THEN 1 ELSE 0
       IN /\ last'.out = IF x + BALL_SIZE < 0 THEN <<TRUE, 2>>
                         ELSE IF x - BALL_SIZE > SCREEN_WIDTH THEN <<TRUE, 1>>
                         ELSE <<FALSE, 0>>
          /\ ps'.scoreboard = [score_p1 |-> Score1 + gain1, score_p2 |-> Score2 + gain2]
          /\ ps'.player1.score = ps.player1.score + gain1
          /\ ps'.player2.score = ps.player2.score + gain2]_vars
\* the ball at x = -41 gave player 2 the first point of the match
C3_Witness ==
  /\ last.op = "scoring" /\ last.exit_x = -BALL_SIZE - 1 /\ last.out = <<TRUE, 2>>
  /\ Score1 = 0 /\ Score2 = 1

\* C4: after an update that scored a ball exit, reset_timer is positive (the
\* countdown of reset_delay has started).
C4_CountdownAfterPoint ==
  (last.op = "update" /\ last.out[1] /\ ~ps.game_over) => ps.reset_timer > 0

\* C5: after an update that scored a ball exit, the ball is at the centre of
\* the screen with last_hit_by cleared, it moves toward player 2 if player 1
\* scored and toward player 1 if player 2 scored, and both ships are at their
\* reset positions.
C5_RoundResetAfterPoint ==
  (last.op = "update" /\ last.out[1]) =>
    /\ ps.ball.x = SCREEN_WIDTH \div 2 /\ ps.ball.y = SCREEN_HEIGHT \div 2
    /\ ps.ball.last_hit_by = 0
    /\ last.out[2] = 1 => ps.ball.vx > 0
    /\ last.out[2] = 2 => ps.ball.vx < 0
    /\ ps.player1.x = SHIP_P1_X + SHIP_WIDTH \div 2 /\ ps.player1.y = SCREEN_HEIGHT \div 2
    /\ ps.player2.x = SHIP_P2_X + SHIP_WIDTH \div 2 /\ ps.player2.y = SCREEN_HEIGHT \div 2
\* player 1 has scored and the ball is served toward player 2
C5_Witness ==
  /\ last.op = "update" /\ last.out = <<TRUE, 1>>
  /\ ps.ball.vx > 0
  /\ ps.ball.x = SCREEN_WIDTH \div 2

\* play is under way: PlayState is the current state, neither paused nor over
PlayActive == sm.current = PLAYING /\ ~ps.paused /\ ~ps.game_over

\* C6: in PVE, whenever play is active at level L player 2's speed is
\* min(240 * (1 + 0.15 * (L - 1)), 500), and after each update that scored a
\* ball exit (a round reset, with or without a level-up) the ball's speed is
\* min(200 * (1 + 0.30 * (L - 1)), 600).
C6_LevelSpeeds ==
  (PlayActive /\ ps.game_mode = PVE) =>
    LET L == ps.current_level
    IN /\ ps.player2.speed = Min((240 * (100 + 15 * (L - 1))) \div 100, 500)
       /\ (last.op = "update" /\ last.out[1]) =>
            ps.ball.speed = 10 * Min((200 * (100 + 30 * (L - 1))) \div 100, 600)

\* C7 as stated: in a match of either mode the ball's speed is within
\* [BALL_INITIAL_SPEED, BALL_MAX_SPEED].
C7_SpeedWithinInitialAndMax ==
  sm.current = PLAYING =>
    /\ ps.ball.speed >= BALL_INITIAL_SPEED * 10
    /\ ps.ball.speed <= BALL_MAX_SPEED * 10
\* C7, amended: in a match the ball's speed never exceeds BALL_MAX_SPEED; it is
\* at least BALL_INITIAL_SPEED in PVP and at least the level-1 base speed of
\* 200 in PVE.
C7_SpeedRangeByMode ==
  sm.current = PLAYING =>
    /\ ps.ball.speed <= BALL_MAX_SPEED * 10
    /\ ps.game_mode = PVP => ps.ball.speed >= BALL_INITIAL_SPEED * 10
    /\ ps.game_mode = PVE => ps.ball.speed >= 200 * 10
\* a PVE match whose ball has just bounced off a ship and is still slower than
\* BALL_INITIAL_SPEED
C7_Witness ==
  /\ sm.current = PLAYING /\ ps.game_mode = PVE
  /\ last.op = "update" /\ last.hits # <<>>
  /\ ps.ball.speed < BALL_INITIAL_SPEED * 10

\* C8: an update in which the ball bounces off a ship sets its speed to
\* min(s * BALL_SPEED_INCREMENT, BALL_MAX_SPEED), s being the speed before, which
\* is not less than s; within a round no step lowers the speed, and the speed
\* never exceeds BALL_MAX_SPEED.
C8_BounceSpeedsUp ==
  /\ [](ps.ball.speed <= BALL_MAX_SPEED * 10)
  /\ [][(last'.op = "update" /\ last'.hits # <<>> /\ sm.pending = "none") =>
          /\ ps'.ball.speed =
               Min((ps.ball.speed * 105) \div 100, BALL_MAX_SPEED * 10)
          /\ ps'.ball.speed >= ps.ball.speed]_vars
  /\ [][(ps.entities /\ sm.current = PLAYING /\ sm.pending = "none" /\ ~last'.out[1]
          /\ last'.op = "update")
          => ps'.ball.speed >= ps.ball.speed]_vars
\* a bounce that brought the speed to BALL_MAX_SPEED
C8_Witness ==
  /\ last.op = "update" /\ last.hits # <<>>
  /\ ps.ball.speed = BALL_MAX_SPEED * 10

\* C9: while paused, PlayState.update changes nothing of the play state: no
\* ship, no ball, no score, no timer, no level, no AI controller state.
C9_PausedUpdateChangesNothing ==
  [][(ps.paused /\ sm.current = PLAYING /\ sm.pending = "none" /\ last'.op = "update")
      => ps' = ps]_vars
\* a paused PVE match after an update, the ball in flight
C9_Witness ==
  /\ ps.paused /\ sm.current = PLAYING /\ last.op = "update"
  /\ ps.game_mode = PVE /\ ps.ai_controller.present
  /\ ps.ball.x # SCREEN_WIDTH \div 2 /\ ps.ball.vx # 0

\* C10: a ship bounces the ball only when the ball moves toward it; one update
\* applies at most one paddle bounce; after a bounce the ball moves away from
\* the ship, clear of its hit-box, and does not bounce off that ship in the
\* next update.
C10_OneBouncePerContact ==
  /\ [][(last'.op = "update" /\ sm.pending = "none") =>
          /\ Len(last'.hits) <= 1
          /\ last'.hits = <<1>> =>
               /\ ps.ball.vx < 0 /\ ps'.ball.vx > 0
               /\ ~CollideRect(BallRect(ps'.ball), ShipPaddleRect(ps'.player1))
          /\ last'.hits = <<2>> =>
               /\ ps.ball.vx > 0 /\ ps'.ball.vx < 0
               /\ ~CollideRect(BallRect(ps'.ball), ShipPaddleRect(ps'.player2))]_vars
  /\ [][(last.op = "update" /\ last'.op = "update" /\ last.hits # <<>>)
          => \A k \in 1 .. Len(last'.hits) : last'.hits[k] # last.hits[1]]_vars
\* the update after a bounce off player 1's ship
C10_Witness ==
  /\ last.op = "update" /\ last.hits = <<>>
  /\ ps.ball.last_hit_by = 1 /\ ps.ball.vx > 0
  /\ ps.ball.x > SHIP_P1_X + SHIP_WIDTH + BALL_SIZE \div 2 + 5

\* C11: an update in which the ball bounces off a ship leaves vx pointing away
\* from that ship (vx > 0 after player 1, vx < 0 after player 2) and last_hit_by
\* equal to its player id; last_hit_by changes in no other step than a paddle
\* bounce or a ball reset (which clears it, the ball at the centre).
C11_BounceTurnsBallAway ==
  /\ [][(last'.op = "update" /\ last'.hits # <<>>) =>
          LET id == last'.hits[Len(last'.hits)]
          IN /\ ps'.ball.last_hit_by = id
             /\ id = 1 => ps'.ball.vx > 0
             /\ id = 2 => ps'.ball.vx < 0]_vars
  /\ [][ps'.ball.last_hit_by # ps.ball.last_hit_by =>
          \/ last'.op = "update" /\ last'.hits # <<>>
          \/ /\ ps'.ball.last_hit_by = 0
             /\ ps'.ball.x = SCREEN_WIDTH \div 2 /\ ps'.ball.y = SCREEN_HEIGHT \div 2]_vars
\* the ball on its way back from player 2's ship, an update after the bounce
C11_Witness ==
  /\ last.op = "update" /\ last.hits = <<>>
  /\ ps.ball.last_hit_by = 2 /\ ps.ball.vx < 0
  /\ ps.ball.x < SHIP_P2_X - BALL_SIZE

\* C12: Ball._check_wall_collision, for a ball at the top wall, leaves vy > 0,
\* and for a ball at the bottom wall vy < 0; in both cases |vy| afterwards is at
\* most |vy| before plus WALL_BOUNCE_VARIATION; for every vy and every jitter.
C12_WallBounceFlipsSign ==
  [][last'.op = "wall" =>
       LET half_size == BALL_SIZE \div 2
           top == ps.ball.y - half_size <= 0
           bottom == ~top /\ ps.ball.y + half_size >= SCREEN_HEIGHT
       IN /\ top => ps'.ball.vy > 0
          /\ bottom => ps'.ball.vy < 0
          /\ (top \/ bottom) =>
               Abs(ps'.ball.vy) <= Abs(ps.ball.vy) + WALL_BOUNCE_VARIATION * 10]_vars

\* C13: in every state each ship's y is within [SHIP_HEIGHT // 2 + 10,
\* SCREEN_HEIGHT - SHIP_HEIGHT // 2 - 10] and its x is its player's reset value;
\* no step changes a ship's x.
C13_ShipsStayInBounds ==
  /\ [](\A ship \in {ps.player1, ps.player2} :
          /\ ship.y >= SHIP_HEIGHT \div 2 + 10
          /\ ship.y <= SCREEN_HEIGHT - SHIP_HEIGHT \div 2 - 10
          /\ ship.x = IF ship.player_id = 1 THEN SHIP_P1_X + SHIP_WIDTH \div 2
                      ELSE SHIP_P2_X + SHIP_WIDTH \div 2)
  /\ [][ps'.player1.x = ps.player1.x /\ ps'.player2.x = ps.player2.x]_vars
\* both ships held at their limits by an update: player 1 at the top, player 2
\* at the bottom
C13_Witness ==
  /\ last.op = "update" /\ sm.current = PLAYING
  /\ ps.player1.move_direction = -1 /\ ps.player1.y = SHIP_HEIGHT \div 2 + 10
  /\ ps.player2.move_direction = 1
  /\ ps.player2.y = SCREEN_HEIGHT - SHIP_HEIGHT \div 2 - 10

\* C14: in every state neither ship's rectangle overlaps the barrier's collision
\* rectangle or its danger zone (so _on_laser_touch is never called), and a step
\* changes the scores only by an update that scored a ball exit, which adds one
\* point for the scorer, or by a reset to 0-0.
C14_ShipsClearOfBarrier ==
  /\ [](\A ship \in {ps.player1, ps.player2} :
          /\ ~LaserCheckCollision(ShipRect(ship))
          /\ ~CollideRect(LaserDangerZone, ShipRect(ship)))
  /\ [][ps'.scoreboard # ps.scoreboard =>
          \/ /\ last'.op = "update" /\ last'.out[1]
             /\ Score1' + Score2' = Score1 + Score2 + 1
             /\ last'.out[2] = 1 => Score1' = Score1 + 1
             /\ last'.out[2] = 2 => Score2' = Score2 + 1
          \/ ps'.scoreboard = [score_p1 |-> 0, score_p2 |-> 0]]_vars
\* a PVE match in which the bot has scored the first point by a ball exit
C14_Witness ==
  /\ last.op = "update" /\ last.out = <<TRUE, 2>>
  /\ ps.game_mode = PVE /\ Score1 = 0 /\ Score2 = 1

\* C15: when _check_collisions finds a ship on the barrier's collision
\* rectangle, the other player's score grows by exactly one (scoreboard and
\* ship) and a score grows for no other reason, the ship is back at its reset
\* position after the same call, the ball and reset_timer are as before, and the
\* winner has been checked: the match is over exactly if a score has reached
\* WINNING_SCORE.
C15_LaserTouchPenalty ==
  [][last'.op = "laser" =>
       LET touch1 == LaserCheckCollision(ShipRect(ps.player1))
           touch2 == LaserCheckCollision(ShipRect(ps.player2))
           gain1 == IF touch2 THEN 1 ELSE 0
           gain2 == IF touch1 THEN 1 ELSE 0
       IN /\ ps'.scoreboard = [score_p1 |-> Score1 + gain1, score_p2 |-> Score2 + gain2]
          /\ ps'.player1.score = ps.player1.score + gain1
          /\ ps'.player2.score = ps.player2.score + gain2
          /\ touch1 => /\ ps'.player1.x = SHIP_P1_X + SHIP_WIDTH \div 2
                       /\ ps'.player1.y = SCREEN_HEIGHT \div 2
          /\ touch2 => /\ ps'.player2.x = SHIP_P2_X + SHIP_WIDTH \div 2
                       /\ ps'.player2.y = SCREEN_HEIGHT \div 2
          /\ ps'.ball = ps.ball
          /\ ps'.reset_timer = ps.reset_timer
          /\ ps'.game_over <=> (Score1' >= WINNING_SCORE \/ Score2' >= WINNING_SCORE)
          /\ (~touch1 /\ ~touch2) => ps' = ps]_vars
\* player 1's ship touched the barrier at 4-9: player 2 has won 4-10 and the
\* ship is back in its place
C15_Witness ==
  /\ last.op = "laser"
  /\ Score1 = 4 /\ Score2 = WINNING_SCORE /\ ps.game_over /\ ps.winner = 2
  /\ ps.player1.x = SHIP_P1_X + SHIP_WIDTH \div 2
  /\ ps.ball.x # SCREEN_WIDTH \div 2

\* the level system: level, progress counter and threshold
Levels(s) == <<s.current_level, s.level_points, s.points_for_next_level>>

\* C16: an update of a PVE match in which player 1 scores by a ball exit adds
\* one to level_points, and if that reaches points_for_next_level the level and
\* the threshold grow by one and level_points returns to 0; any other step (a
\* point of player 2, any step in PVP) leaves the level system as it is or
\* resets it to level 1; in every state 0 <= level_points <
\* points_for_next_level and points_for_next_level = current_level + 2.
C16_LevelProgress ==
  /\ [](/\ 0 <= ps.level_points /\ ps.level_points < ps.points_for_next_level
        /\ ps.points_for_next_level = ps.current_level + 2)
  /\ [][IF /\ sm.current = PLAYING /\ sm.pending = "none" /\ ps.game_mode = PVE
           /\ last'.op = "update" /\ last'.out = <<TRUE, 1>>
        THEN IF ps.level_points + 1 >= ps.points_for_next_level
             THEN Levels(ps') = <<ps.current_level + 1, 0, ps.points_for_next_level + 1>>
             ELSE Levels(ps') = <<ps.current_level, ps.level_points + 1,
                                  ps.points_for_next_level>>
        ELSE Levels(ps') = Levels(ps) \/ Levels(ps') = <<1, 0, 3>>]_vars
\* player 1's seventh point against the bot has brought level 3
C16_Witness ==
  /\ ps.game_mode = PVE /\ last.op = "update" /\ last.out = <<TRUE, 1>>
  /\ Score1 = 7 /\ Levels(ps) = <<3, 0, 5>>

\* C17: in every state of a PVE match the AI controller's tier is the one of
\* the current level, 'easy' up to level 2, 'medium' at levels 3 and 4, 'hard'
\* from level 5, whatever difficulty set_game_mode was given.
C17_TierFollowsLevel ==
  (sm.current = PLAYING /\ ps.game_mode = PVE) =>
    /\ ps.ai_controller.present
    /\ ps.ai_controller.difficulty =
         IF ps.current_level <= 2 THEN "easy"
         ELSE IF ps.current_level <= 4 THEN "medium" ELSE "hard"
\* a PVE match in play at level 3, the controller now at 'medium'
C17_Witness ==
  /\ sm.current = PLAYING /\ ps.game_mode = PVE
  /\ last.op = "update" /\ ~last.out[1] /\ ps.ball.x # SCREEN_WIDTH \div 2
  /\ ps.current_level = 3 /\ ps.ai_controller.difficulty = "medium"

C19_PredictionStopsAtCap ==
  last.op = "predict" =>
    LET b == ps.ball
        half_size == (BALL_SIZE \div 2) * 1000
        end_y == b.y * 1000 + 1000 * Quot(b.vy * 16, 10)
        clear == /\ half_size < b.y * 1000 /\ b.y * 1000 < SCREEN_HEIGHT * 1000 - half_size
                 /\ half_size < end_y /\ end_y < SCREEN_HEIGHT * 1000 - half_size
    IN /\ last.ai[2] <= 1000 /\ last.physics[2] <= 1000
       /\ (b.vx <= 1 /\ b.x < last.target_x) => last.ai[2] = 1000
       /\ (b.vx = 0 /\ b.x = last.target_x) \/ (b.vx = 1 /\ b.x < last.target_x)
            => last.physics[2] = 1000
       /\ \A r \in {last.ai, last.physics} :
            r[2] = 1000 =>
              /\ half_size <= r[1] /\ r[1] <= SCREEN_HEIGHT * 1000 - half_size
              /\ clear => r[1] = end_y
\* both predictors have run their 1000 iterations for a ball that crawls toward
\* the bot's ship while bouncing between the walls
C19_Witness ==
  /\ last.op = "predict" /\ last.ai[2] = 1000 /\ last.physics[2] = 1000
  /\ ps.ball.vx = 1 /\ ps.ball.vy = -6000 /\ ps.ball.x < last.target_x
  /\ last.ai[1] # (SCREEN_HEIGHT \div 2) * 1000

\* C20: for a ball moving away from target x (target ahead and the ball moving
\* the other way, or the ball past target x in its direction of travel)
\* PhysicsSystem.predict_ball_position returns SCREEN_HEIGHT // 2, and so does
\* AIController._predict_ball_position where AIController.update calls it (the
\* ball moving right), the ball already past the bot ship's x.
C20_AwayPredictsCentre ==
  last.op = "predict" =>
    LET b == ps.ball
        away == \/ last.target_x > b.x /\ b.vx < 0
                \/ last.target_x < b.x /\ b.vx > 0
    IN /\ away => last.physics[1] = (SCREEN_HEIGHT \div 2) * 1000
       /\ (b.vx > 0 /\ last.target_x < b.x) => last.ai[1] = (SCREEN_HEIGHT \div 2) * 1000

\* a frame in which PlayState.update runs AIController.update for the bot
C21_BotUpdates ==
  /\ pc = "events" /\ last'.op = "update"
  /\ sm.current = PLAYING /\ sm.pending = "none"
  /\ PlayRuns(ps) /\ ps.ai_controller.present /\ ps.player2.is_bot

\* the reaction timer as AIController.update tests it: decremented by dt and
\* forced to 0 when the ball's horizontal direction is new
C21_Timer(dt) ==
  LET ball_direction == IF ps.ball.vx > 0 THEN 1 ELSE -1
  IN IF ball_direction # ps.ai_controller.last_ball_direction THEN 0
     ELSE ps.ai_controller.reaction_timer - dt

\* C21: in an update with the ball coming (vx > 0) the target is recomputed
\* from a fresh prediction, and the timer set to the tier's reaction_delay,
\* exactly when the decremented (or forced) timer is <= 0; otherwise target_y
\* is unchanged and the timer keeps running; so the update that first sees the
\* ball turned toward the bot always recomputes
C21_RecomputeWhenDue ==
  [][C21_BotUpdates /\ ps.ball.vx > 0 =>
      \E dt \in BotEnv.dts :
        LET ai == ps.ai_controller
            after == ps'.ai_controller
            settings == AI_DIFFICULTY[ai.difficulty]
            fresh == AIPredictBallPosition(ps.ball, ps.player2.x)
        IN /\ C21_Timer(dt) <= 0 =>
                /\ after.reaction_timer = settings.reaction_delay
                /\ Abs(after.target_y - fresh) <= settings.prediction_error + 100
           /\ C21_Timer(dt) > 0 =>
                /\ after.reaction_timer = C21_Timer(dt)
                /\ after.reaction_timer < settings.reaction_delay
                /\ after.target_y = ai.target_y
           /\ ai.last_ball_direction # 1 => C21_Timer(dt) <= 0]_vars

\* the update after player 1 returned the ball: the bot has left the centre
\* target for a prediction and restarted its reaction timer
C21_Witness ==
  /\ ps.game_mode = PVE /\ last.op = "update"
  /\ ps.ball.last_hit_by = 1 /\ ps.ball.vx > 0 /\ ps.ball.x <= 195
  /\ ps.ai_controller.last_ball_direction = 1
  /\ ps.ai_controller.reaction_timer = AISettings(ps.ai_controller).reaction_delay
  /\ ps.ai_controller.target_y # SCREEN_HEIGHT \div 2

\* C22: the bot ship's speed is its base speed scaled by the speed_multiplier
\* (0.6 / 0.8 / 1.0) of the controller's active difficulty profile
C22_BotSpeedFollowsTier ==
  ps.entities /\ ps.game_mode = PVE /\ ps.player2.is_bot /\ ps.ai_controller.present
    => ps.player2.speed * 100
         = SHIP_SPEED * AISettings(ps.ai_controller).speed_multiplier

\* the controller's tracking state as AIController.__init__ and reset() leave it
C23_Fresh(ai) ==
  /\ ai.target_y = SCREEN_HEIGHT \div 2
  /\ ai.reaction_timer = 0
  /\ ai.last_ball_direction = 0
  /\ ai.drift_offset = 0 /\ ai.drift_timer = 0 /\ ai.drift_target = 0

\* C23: when a new PVE match begins by a restart after game over (SPACE or
\* RETURN, _reset_game), the AI's target_y, reaction timer, last ball direction
\* and drift state are at their initial values
C23_AIResetBetweenMatches ==
  [][(/\ sm.current = PLAYING /\ last'.op = "event"
      /\ ps.game_mode = PVE /\ ps.game_over /\ ~ps'.game_over)
       => C23_Fresh(ps'.ai_controller)]_vars

\* C24: while the match is over, an update changes nothing, no key pauses the
\* game or reaches the input handler, and an event either leaves the play state
\* as it is (at most requesting the menu) or is the full reset of the match
C24_GameOverIsInert ==
  /\ [](sm.current = PLAYING /\ ps.game_over
          => ~ps.paused /\ ~ps.show_exit_confirmation)
  /\ [][(sm.current = PLAYING /\ ps.game_over) =>
          /\ (last'.op = "update" /\ sm.pending = "none") => ps' = ps
          /\ (last'.op = "update" /\ sm.pending # "none") =>
                sm.pending = MENU /\ sm'.current = MENU /\ ps' = PlayExit(ps)
          /\ last'.op = "event" =>
                /\ inp' = inp
                /\ ~ps'.paused /\ ~ps'.show_exit_confirmation
                /\ \/ ps' = ps /\ sm' = sm
                   \/ ps' = ps /\ sm' = [sm EXCEPT !.pending = MENU]
                   \/ MatchReset /\ sm' = sm
                /\ ps'.game_over =>
                     /\ ps'.player1.move_direction = ps.player1.move_direction
                     /\ ps'.player2.move_direction = ps.player2.move_direction]_vars

\* a key event that the game-over screen has ignored
C24_Witness ==
  /\ sm.current = PLAYING /\ sm.pending = "none"
  /\ ps.game_over /\ last.op = "event"

\* C25: a match ends at WINNING_SCORE points, too few for a fourth level: the
\* level never exceeds 3, so the AI controller is never on 'hard' and the level
\* speeds of the bot and the ball stay below their caps of 500 and 600 px/s
C25_LevelAtMostThree ==
  /\ ps.current_level <= 3
  /\ (sm.current = PLAYING /\ ps.game_mode = PVE) =>
       /\ ps.ai_controller.present /\ ps.ai_controller.difficulty # "hard"
       /\ ps.player2.speed < 500
       /\ BaseBotSpeed * (100 + (ps.current_level - 1) * 15) < 500 * 100
       /\ BaseBallSpeed * (100 + (ps.current_level - 1) * 30) < 600 * 100

\* player 1 has won against the bot with ten ball points, at level 3
C25_Witness ==
  /\ ps.game_mode = PVE /\ ps.game_over /\ ps.winner = 1
  /\ Score1 = WINNING_SCORE
  /\ Levels(ps) = <<3, 3, 5>>

\* C26: whenever PlayState.enter has completed (the frame that applies the
\* change to the playing state), paused and show_exit_confirmation are false,
\* whatever keys followed the confirmation of the exit to the menu
C26_EnterUnpaused ==
  [][(sm.pending = PLAYING /\ last'.op = "update")
       => ~ps'.paused /\ ~ps'.show_exit_confirmation]_vars

\* C27: paused and game_over are never both true and the exit confirmation is
\* only shown while paused; a key event that meets the confirmation either
\* changes nothing, or cancels it (back in the pause menu, still paused), or
\* confirms it (both flags cleared and the menu requested)
C27_PauseFlags ==
  /\ [](~(ps.paused /\ ps.game_over) /\ (ps.show_exit_confirmation => ps.paused))
  /\ [][(sm.current = PLAYING /\ ps.show_exit_confirmation /\ last'.op = "event") =>
          \/ ps' = ps /\ sm' = sm
          \/ /\ ps' = [ps EXCEPT !.show_exit_confirmation = FALSE]
             /\ ps'.paused /\ sm' = sm
          \/ /\ ps' = [ps EXCEPT !.show_exit_confirmation = FALSE, !.paused = FALSE]
             /\ sm' = [sm EXCEPT !.pending = MENU]]_vars

\* the exit to the menu has just been confirmed in a match at 0-0
C27_Witness ==
  /\ sm.current = PLAYING /\ sm.pending = MENU /\ last.op = "event"
  /\ ~ps.paused /\ ~ps.show_exit_confirmation /\ ~ps.game_over
  /\ ps.pause_menu_selected = 1 /\ Points(ps) = 0

\* C28: each ship's score equals the scoreboard's score of its player in every
\* state; a laser penalty or a ball exit raises exactly one player's score by
\* exactly 1 (per touching ship, per exit), no other step changes a score, and a
\* score only falls when a new match sets both to 0
C28_ScoresAgree ==
  /\ [](ps.player1.score = Score1 /\ ps.player2.score = Score2)
  /\ [][LET gain1 == Score1' - Score1
            gain2 == Score2' - Score2
        IN \/ /\ last'.op = "laser"
              /\ gain1 = IF LaserCheckCollision(ShipRect(ps.player2)) THEN 1 ELSE 0
              /\ gain2 = IF LaserCheckCollision(ShipRect(ps.player1)) THEN 1 ELSE 0
           \/ /\ last'.op = "update" /\ last'.out[1]
              /\ <<gain1, gain2>> = IF last'.out[2] = 1 THEN <<1, 0>> ELSE <<0, 1>>
           \/ /\ last'.op \in {"update", "event"} /\ ~last'.out[1]
              /\ gain1 = 0 /\ gain2 = 0
           \/ /\ \/ last'.op = "event" /\ ps.game_over
                 \/ last'.op = "update" /\ sm.pending = PLAYING
              /\ Score1' = 0 /\ Score2' = 0 /\ ~ps'.game_over]_vars

\* player 1 has won 10-4 by a ball exit: ship and scoreboard agree
C28_Witness ==
  /\ last.op = "update" /\ last.out = <<TRUE, 1>>
  /\ ps.game_over /\ ps.winner = 1
  /\ ps.player1.score = WINNING_SCORE /\ Score1 = WINNING_SCORE
  /\ ps.player2.score = 4 /\ Score2 = 4

\* C29: while a PVP match is the current state, also one entered after a PVE
\* match whose controller is still held, no step touches the controller, an
\* update that moves the ships leaves player 2 with a direction the keyboard
\* commands, and the level state stays at level 1 whoever scores; while a PVE
\* match is the current state no key event changes the bot's direction, unless
\* it restarts the match, and an update leaves the bot with the AI's direction
C29_ModesKeepApart ==
  /\ [](sm.current = PLAYING /\ ps.game_mode = PVP
          => ~ps.player2.is_bot /\ Levels(ps) = <<1, 0, 3>>)
  /\ [][(sm.current = PLAYING /\ sm.pending = "none" /\ ps.game_mode = PVP) =>
          /\ ps'.ai_controller = ps.ai_controller
          /\ (last'.op = "update" /\ PlayRuns(ps) /\ ~last'.out[1]) =>
                \E cmd \in KeysEnv.p2cmds :
                  ps'.player2.move_direction
                    = ShipCommand(ps.player2, cmd).move_direction]_vars
  /\ [][(sm.current = PLAYING /\ sm.pending = "none" /\ ps.game_mode = PVE) =>
          /\ ps.player2.is_bot
          /\ (last'.op = "event" /\ ~ps.game_over) =>
                ps'.player2.move_direction = ps.player2.move_direction
          /\ (last'.op = "update" /\ PlayRuns(ps) /\ ~last'.out[1]) =>
                ps'.player2.move_direction
                  = AIMovementDirection(ps.player2.y,
                                        ps'.ai_controller.target_y
                                          + ps'.ai_controller.drift_offset)]_vars

\* a PVP match in play with the controller of an earlier PVE match still held:
\* player 2 is at the bottom and keeps the keyboard's direction, down
C29_Witness ==
  /\ sm.current = PLAYING /\ ps.game_mode = PVP /\ ps.ai_controller.present
  /\ last.op = "update" /\ ps.ai_controller.last_ball_direction # 0
  /\ ps.player2.y = ShipMaxY /\ ps.player2.move_direction = 1
  /\ Score1 > 0

\* C30: a change_state to a registered name only sets the pending state (the
\* last request wins) and one to an unregistered name changes nothing; events
\* never change the current state and reach the current state only; the next
\* update applies the pending change first, exit of the old state and enter of
\* the new one before the new state's first update, and updates the state that
\* is then current; the playing state is only current after its enter
C30_EnterExitProtocol ==
  /\ [](/\ sm.current \in {MENU, PLAYING}
        /\ sm.pending \in {"none", MENU, PLAYING}
        /\ sm.current = PLAYING => ps.entities)
  /\ [][last'.op = "change_state" =>
          /\ last'.state_name \in {MENU, PLAYING}
               => sm' = [current |-> sm.current, pending |-> last'.state_name]
          /\ last'.state_name \notin {MENU, PLAYING} => sm' = sm
          /\ ps' = ps /\ menu' = menu /\ inp' = inp]_vars
  /\ [][last'.op = "event" =>
          /\ sm'.current = sm.current
          /\ sm'.pending \in {sm.pending, MENU, PLAYING}
          /\ sm.current = MENU =>
               /\ ps' = [ps EXCEPT !.game_mode = ps'.game_mode,
                                   !.ai_difficulty = ps'.ai_difficulty]
               /\ inp' = inp
          /\ sm.current = PLAYING => menu' = menu /\ running' = running]_vars
  /\ [][last'.op = "update" =>
          /\ sm' = [current |-> IF sm.pending # "none" THEN sm.pending ELSE sm.current,
                    pending |-> "none"]
          /\ (sm.pending # "none" /\ sm.current = PLAYING) => inp' = {}
          /\ sm'.current = MENU =>
               /\ ps' = IF sm.pending # "none" /\ sm.current = PLAYING
                        THEN PlayExit(ps) ELSE ps
               /\ sm.pending # "none" => menu'.selected_index = 0
          /\ sm'.current = PLAYING =>
               /\ menu' = menu
               /\ sm.pending # "none" =>
                    /\ ps'.entities /\ Points(ps') = 0 /\ ~ps'.game_over
                    /\ Levels(ps') = <<1, 0, 3>>
                    /\ ps'.player2.is_bot <=> ps.game_mode = PVE
                    /\ ps'.player1.score = 0 /\ ps'.player2.score = 0
                    /\ ps'.paused \/ ps'.ball.x # SCREEN_WIDTH \div 2]_vars

\* a request for an unregistered state has left a pending re-entry of the
\* playing state in place, in a match that has a point on the board
C30_Witness ==
  /\ last.op = "change_state" /\ last.state_name = "ship_select"
  /\ sm.current = PLAYING /\ sm.pending = PLAYING
  /\ Points(ps) = 1

====
